---- MODULE Spec2Model ----
(***************************************************************************)
(* Auto Time Logger: the day-log store, the duplicate guard, the model     *)
(* fallback orchestrator and the command handlers that drive them.         *)
(*                                                                         *)
(* Texts that the code trims are sequences of tokens, the token " " being   *)
(* white space.  A file's raw content is a sequence of raw tokens; a JSON   *)
(* document is one raw token whose body lists, per object, the             *)
(* <<key, value>> pairs in the order JSON.stringify writes them.  An       *)
(* in-memory object is a function from its own keys to their values.       *)
(***************************************************************************)
EXTENDS Integers, Sequences, FiniteSets, TLC

VARIABLES
    now,      \* Date.now(), in ms
    disk,     \* the day-log file and its parent directory
    call,     \* the last direct call of a store function and what it returned
    fb,       \* one call of generateContentWithFallback / summarizeCode
    inv,      \* the command invocations
    secret,   \* whether SecretStorage holds an API key
    appended, \* per invocation: how many times its appendLogEntry wrote
    sheet,    \* the timesheet file of the day
    ts,       \* the Generate Timesheet invocations
    env       \* the editor's selection and the OS clipboard

vars == <<now, disk, call, fb, inv, secret, appended, sheet, ts, env>>

----------------------------------------------------------------------------
(* Bounds of the model *)

MaxStoreLog == 2   \* records a day log may hold before direct appends stop
MaxClock == 15     \* the clock stops at MaxClock * 10 s
MaxModels == 3     \* longest candidate list handed to the orchestrator
MaxInv == 2        \* command invocations in one run
MaxMinutes == 2    \* minutes the clock runs while commands are invoked
MaxPad == 2        \* white space between a fence and the JSON document

----------------------------------------------------------------------------
(* Texts *)

WS == " "

RECURSIVE TrimStart(_)
TrimStart(s) ==
    IF s # <<>> /\ Head(s) = WS THEN TrimStart(Tail(s)) ELSE s

RECURSIVE TrimEnd(_)
TrimEnd(s) ==
    IF s # <<>> /\ s[Len(s)] = WS THEN TrimEnd(SubSeq(s, 1, Len(s) - 1)) ELSE s

\* String.prototype.trim
Trim(s) == TrimEnd(TrimStart(s))

NO_CONTEXT == <<"(no", WS, "code", WS, "context", WS, "available)">>
UNAVAILABLE == <<"(AI", WS, "summary", WS, "unavailable)">>

\* JavaScript's undefined, where a text is expected
UNDEFINED == "<undefined>"

----------------------------------------------------------------------------
(* Instants.  An ISO-8601 string is <<day, ms of the day>>; a string that    *)
(* Date cannot parse is INVALID_DATE.  A number is [nan, v].                *)

DAY_MS == 24 * 60 * 60 * 1000

INVALID_DATE == <<-1, -1>>

Num(v) == [nan |-> FALSE, v |-> v]
NaN == [nan |-> TRUE, v |-> 0]

\* new Date(ms).toISOString()
toISOString(ms) == <<ms \div DAY_MS, ms % DAY_MS>>

\* new Date(x).getTime(), x a property read off an object
getTime(obj, key) ==
    IF key \notin DOMAIN obj THEN NaN
    ELSE IF obj[key] = INVALID_DATE THEN NaN
    ELSE Num(obj[key][1] * DAY_MS + obj[key][2])

\* a - b and a < b on numbers: NaN propagates, and compares false
Minus(a, b) == IF a.nan \/ b.nan THEN NaN ELSE Num(a.v - b.v)
Less(a, b) == ~a.nan /\ ~b.nan /\ a.v < b.v

----------------------------------------------------------------------------
(* Objects and JSON *)

KeyOrder ==
    <<"timestamp", "description", "aiPrompt", "codeContextSnippetHash",
      "summary", "source">>

\* obj.key, undefined when the object has no such property
Get(obj, key) == IF key \in DOMAIN obj THEN obj[key] ELSE UNDEFINED

RECURSIVE Pairs(_, _)
Pairs(obj, i) ==
    IF i > Len(KeyOrder) THEN <<>>
    ELSE IF KeyOrder[i] \in DOMAIN obj
         THEN <<<<KeyOrder[i], obj[KeyOrder[i]]>>>> \o Pairs(obj, i + 1)
         ELSE Pairs(obj, i + 1)

\* JSON.stringify of an array of objects
Stringify(entries) ==
    [t |-> "json", body |-> [i \in 1..Len(entries) |-> Pairs(entries[i], 1)]]

ObjectOf(pairs) ==
    [k \in {pairs[i][1] : i \in 1..Len(pairs)} |->
        pairs[CHOOSE i \in 1..Len(pairs) : pairs[i][1] = k][2]]

WsTok == [t |-> "ws", body |-> <<>>]
GarbageTok == [t |-> "text", body |-> <<>>]
\* The JSON documents {} and "ab": valid JSON, not an array
ObjectTok == [t |-> "object", body |-> <<>>]
StringTok == [t |-> "string", body |-> <<>>]

RECURSIVE RawTrimStart(_)
RawTrimStart(raw) ==
    IF raw # <<>> /\ Head(raw).t = "ws" THEN RawTrimStart(Tail(raw)) ELSE raw

RECURSIVE RawTrimEnd(_)
RawTrimEnd(raw) ==
    IF raw # <<>> /\ raw[Len(raw)].t = "ws"
    THEN RawTrimEnd(SubSeq(raw, 1, Len(raw) - 1)) ELSE raw

RawTrim(raw) == RawTrimEnd(RawTrimStart(raw))

\* JSON.parse: one JSON document, nothing else around it
JsonParses(raw) == Len(raw) = 1 /\ raw[1].t \in {"json", "object", "string"}
JsonParse(raw) == [i \in 1..Len(raw[1].body) |-> ObjectOf(raw[1].body[i])]

----------------------------------------------------------------------------
(* The log store *)

Ok(v) == [threw |-> FALSE, val |-> v]
Threw == [threw |-> TRUE, val |-> <<>>]

\* A value returned "as LogEntry[]" that is no array: kind tells what it is
NonArray(kind) == [threw |-> FALSE, val |-> <<>>, kind |-> kind]
IsArray(r) == "kind" \notin DOMAIN r

ensureDir(d) == [d EXCEPT !.dir = TRUE]

readLogFile(d) ==
    IF ~d.exists THEN Ok(<<>>)
    ELSE LET raw == RawTrim(d.raw) IN
         IF raw = <<>> THEN Ok(<<>>)
         ELSE IF ~JsonParses(raw) THEN Threw
         ELSE IF raw[1].t = "json" THEN Ok(JsonParse(raw))
         ELSE NonArray(raw[1].t)

writeLogFile_keepOld(d, entries) ==
    IF ~d.dir THEN [threw |-> TRUE, disk |-> d]
    ELSE [threw |-> FALSE,
          disk |-> [d EXCEPT !.exists = TRUE,
                             !.raw = @ \o <<Stringify(entries)>>]]

\* fs.writeFileSync fails when the directory is missing
writeLogFile(d, entries) ==
    IF ~d.dir THEN [threw |-> TRUE, disk |-> d]
    ELSE [threw |-> FALSE,
          disk |-> [d EXCEPT !.exists = TRUE, !.raw = <<Stringify(entries)>>]]

appendLogEntry_overwrite(d, entry) ==
    writeLogFile(ensureDir(d), <<entry>>)

\* entries.push(entry) is a TypeError when entries is no array
CanPush(r) == ~r.threw /\ IsArray(r)

appendLogEntry(d, entry) ==
    LET d1 == ensureDir(d)
        r == readLogFile(d1)
    IN  IF ~CanPush(r) THEN [threw |-> TRUE, disk |-> d1]
        ELSE writeLogFile(d1, Append(r.val, entry))

TWO_MINUTES_MS == 2 * 60 * 1000

\* a ?? b
Coalesce(a, b) == IF a # UNDEFINED THEN a ELSE b

isDuplicateEntry_inclusive(d, aiPrompt, t) ==
    LET r == readLogFile(d) IN
    IF r.threw THEN Threw
    ELSE IF Len(r.val) = 0 THEN Ok(FALSE)
    ELSE LET last == r.val[Len(r.val)]
             lastPrompt == Coalesce(Get(last, "aiPrompt"),
                                    Coalesce(Get(last, "description"), ""))
         IN  IF lastPrompt # aiPrompt THEN Ok(FALSE)
             ELSE Ok(~Less(Num(TWO_MINUTES_MS),
                           Minus(Num(t), getTime(last, "timestamp"))))

isDuplicateEntry_anyRecord(d, aiPrompt, t) ==
    LET r == readLogFile(d) IN
    IF r.threw THEN Threw
    ELSE Ok(\E i \in 1..Len(r.val) :
              /\ Coalesce(Get(r.val[i], "aiPrompt"),
                          Coalesce(Get(r.val[i], "description"), "")) = aiPrompt
              /\ Less(Minus(Num(t), getTime(r.val[i], "timestamp")),
                      Num(TWO_MINUTES_MS)))

isDuplicateEntry_twoSided(d, aiPrompt, t) ==
    LET r == readLogFile(d) IN
    IF r.threw THEN Threw
    ELSE IF Len(r.val) = 0 THEN Ok(FALSE)
    ELSE LET last == r.val[Len(r.val)]
             lastPrompt == Coalesce(Get(last, "aiPrompt"),
                                    Coalesce(Get(last, "description"), ""))
             age == Minus(Num(t), getTime(last, "timestamp"))
         IN  IF lastPrompt # aiPrompt THEN Ok(FALSE)
             ELSE Ok(/\ Less(age, Num(TWO_MINUTES_MS))
                     /\ Less(Num(-TWO_MINUTES_MS), age))

\* isDuplicateEntry on a value that is no array.  {}: length is undefined,
\* last is undefined, last.aiPrompt is a TypeError.  "ab": last is a
\* character, lastPrompt is '', and new Date(undefined) has time NaN.
NonArrayDuplicate(r, aiPrompt, t) ==
    IF r.kind = "object" THEN Threw
    ELSE IF "" # aiPrompt THEN Ok(FALSE)
    ELSE Ok(Less(Minus(Num(t), NaN), Num(TWO_MINUTES_MS)))

isDuplicateEntry(d, aiPrompt, t) ==
    LET r == readLogFile(d) IN
    IF r.threw THEN Threw
    ELSE IF ~IsArray(r) THEN NonArrayDuplicate(r, aiPrompt, t)
    ELSE IF Len(r.val) = 0 THEN Ok(FALSE)
    ELSE LET last == r.val[Len(r.val)]
             lastPrompt == Coalesce(Get(last, "aiPrompt"),
                                    Coalesce(Get(last, "description"), ""))
         IN  IF lastPrompt # aiPrompt THEN Ok(FALSE)
             ELSE Ok(Less(Minus(Num(t), getTime(last, "timestamp")),
                          Num(TWO_MINUTES_MS)))

----------------------------------------------------------------------------
(* Records and files the model starts from *)

Texts == {"fix bug", "fix bugs"}

\* No selection in the editor, nothing on the clipboard
NoEnv == [selection |-> <<>>, clipboard |-> <<>>]

\* No timesheet file
NoSheet == [exists |-> FALSE, raw |-> <<>>]

LogEntry_noAlias(timestamp, text, summary, source) ==
    [timestamp |-> timestamp, description |-> "", aiPrompt |-> text,
     summary |-> summary, source |-> source]

\* The LogEntry both commands build (file and method are left out)
LogEntry(timestamp, text, summary, source) ==
    [timestamp |-> timestamp, description |-> text, aiPrompt |-> text,
     summary |-> summary, source |-> source]

\* A record of the v0.1 schema: no aiPrompt, no source
LegacyEntry(timestamp, text) ==
    [timestamp |-> timestamp, description |-> text, summary |-> <<"s">>]

NoDir == [dir |-> FALSE, exists |-> FALSE, raw |-> <<>>]
NoFile == [dir |-> TRUE, exists |-> FALSE, raw |-> <<>>]
EmptyFile == [dir |-> TRUE, exists |-> TRUE, raw |-> <<>>]
BlankFile == [dir |-> TRUE, exists |-> TRUE, raw |-> <<WsTok>>]
MalformedFile == [dir |-> TRUE, exists |-> TRUE, raw |-> <<GarbageTok>>]
ObjectFile == [dir |-> TRUE, exists |-> TRUE, raw |-> <<ObjectTok>>]
StringFile == [dir |-> TRUE, exists |-> TRUE, raw |-> <<StringTok, WsTok>>]
LegacyFile ==
    [dir |-> TRUE, exists |-> TRUE,
     raw |-> <<Stringify(<<LegacyEntry(toISOString(0), "fix bug")>>), WsTok>>]

InitDisks == {NoDir, NoFile, EmptyFile, BlankFile, MalformedFile, LegacyFile}

\* What a later read of the file yields
Stored(d) == readLogFile(d).val
Readable(d) == CanPush(readLogFile(d))

IsPrefix(s, t) == Len(s) <= Len(t) /\ SubSeq(t, 1, Len(s)) = s

----------------------------------------------------------------------------
(* Direct calls of the store functions, one after the other *)

NoCall == [op |-> "none"]
NoFb == [status |-> "none"]

TickSteps == {10000, 30000, 60000}

Tick(d) ==
    /\ now + d <= MaxClock * 10000
    /\ now' = now + d
    /\ call' = NoCall
    /\ UNCHANGED <<disk, fb, inv, secret, appended, sheet, ts, env>>

StoreAppend(text) ==
    /\ Readable(disk) => Len(Stored(disk)) < MaxStoreLog
    /\ LET entry == LogEntry(toISOString(now), text, UNAVAILABLE, "manual")
           res == appendLogEntry(disk, entry)
       IN  /\ disk' = res.disk
           /\ call' = [op |-> "append", pre |-> disk, entry |-> entry,
                       threw |-> res.threw]
    /\ UNCHANGED <<now, fb, inv, secret, appended, sheet, ts, env>>

StoreIsDuplicate(text) ==
    /\ call' = [op |-> "isDuplicate", text |-> text,
                res |-> isDuplicateEntry(disk, text, now)]
    /\ UNCHANGED <<now, disk, fb, inv, secret, appended, sheet, ts, env>>

StoreInit ==
    /\ now = 0
    /\ disk \in InitDisks
    /\ call = NoCall
    /\ fb = NoFb
    /\ inv = <<>>
    /\ secret = FALSE
    /\ appended = <<>>
    /\ sheet = NoSheet
    /\ ts = <<>>
    /\ env = NoEnv

StoreNext ==
    \/ \E d \in TickSteps : Tick(d)
    \/ \E text \in Texts : StoreAppend(text)
    \/ \E text \in Texts : StoreIsDuplicate(text)

SpecStore == StoreInit /\ [][StoreNext]_vars

----------------------------------------------------------------------------
(* Claims about the store functions, under SpecStore *)

\* The prompt text and the instant a stored record carries
PromptOf(rec) ==
    IF "aiPrompt" \in DOMAIN rec THEN rec.aiPrompt ELSE rec.description
InstantOf(rec) == rec.timestamp[1] * DAY_MS + rec.timestamp[2]

C1_AfterAppend ==
    call.op = "append" /\ Readable(call.pre) =>
        /\ ~call.threw
        /\ disk.dir /\ disk.exists
        /\ Stored(disk) = Stored(call.pre) \o <<call.entry>>
        /\ ~call.pre.exists => Stored(disk) = <<call.entry>>

C1_PrefixKept ==
    Readable(disk) /\ Readable(disk') => IsPrefix(Stored(disk), Stored(disk'))

\* C1: appendLogEntry on a file holding a valid sequence S (or on no file)
\* leaves the file holding S followed by the record, creating directory and
\* file on a fresh path; over any run of appends the earlier records stay an
\* unchanged prefix of the file.
C1_SequentialAppend == [](C1_AfterAppend) /\ [][C1_PrefixKept]_vars

C1_Witness ==
    /\ call.op = "append" /\ ~call.threw
    /\ Len(Stored(call.pre)) = 1
    /\ Len(Stored(disk)) = 2
    /\ Stored(disk)[2] = call.entry

\* C3: isDuplicateEntry answers true exactly when the log is non-empty, the
\* last record's prompt text (aiPrompt, else description) equals the text and
\* the last record is less than 120000 ms old; false on an empty or missing
\* log; with one record "fix bug" at T: true at T+90s, false at T+150s, and
\* false for "fix bugs" at T+10s.
C3_DuplicateExactly ==
    call.op = "isDuplicate" /\ Readable(disk) =>
        LET S == Stored(disk)
            n == Len(S)
        IN  /\ ~call.res.threw
            /\ call.res.val <=>
                 /\ n > 0
                 /\ PromptOf(S[n]) = call.text
                 /\ now - InstantOf(S[n]) < 120000
            /\ n = 0 => ~call.res.val
            /\ n = 1 /\ PromptOf(S[1]) = "fix bug" =>
                 /\ call.text = "fix bug" /\ now = InstantOf(S[1]) + 90000
                      => call.res.val
                 /\ call.text = "fix bug" /\ now = InstantOf(S[1]) + 150000
                      => ~call.res.val
                 /\ call.text = "fix bugs" /\ now = InstantOf(S[1]) + 10000
                      => ~call.res.val

C3_Witness ==
    /\ call.op = "isDuplicate" /\ call.text = "fix bug"
    /\ Readable(disk) /\ Len(Stored(disk)) = 1
    /\ "aiPrompt" \notin DOMAIN Stored(disk)[1]
    /\ now = InstantOf(Stored(disk)[1]) + 90000
    /\ call.res.val

\* C5: isDuplicateEntry looks at the last record only: an earlier record with
\* the same text less than 2 minutes old does not make a duplicate when the
\* last record's text differs, and a last record with the same text that is
\* 2 minutes old or older does not either.
C5_LastRecordOnly ==
    call.op = "isDuplicate" /\ Readable(disk) /\ Len(Stored(disk)) > 0 =>
        LET S == Stored(disk)
            last == S[Len(S)]
        IN  /\ PromptOf(last) # call.text => ~call.res.val
            /\ PromptOf(last) = call.text /\ now - InstantOf(last) >= 120000
                 => ~call.res.val

C5_Witness ==
    /\ call.op = "isDuplicate" /\ Readable(disk)
    /\ Len(Stored(disk)) = 2
    /\ PromptOf(Stored(disk)[1]) = call.text
    /\ now - InstantOf(Stored(disk)[1]) < 120000
    /\ PromptOf(Stored(disk)[2]) # call.text
    /\ ~call.res.val

----------------------------------------------------------------------------
(* Reads and whole-file writes of a day log, on every kind of content *)

FileDisks == InitDisks \cup {ObjectFile, StringFile}

WriteRecords ==
    {LogEntry(toISOString(0), "fix bug", <<"s">>, "clipboard"),
     LegacyEntry(toISOString(0), "fix bugs")}

\* The sequences handed to writeLogFile
WriteInputs == UNION {[1..n -> WriteRecords] : n \in 0..MaxStoreLog}

StoreRead ==
    /\ call' = [op |-> "read", pre |-> disk, res |-> readLogFile(disk)]
    /\ UNCHANGED <<now, disk, fb, inv, secret, appended, sheet, ts, env>>

\* writeLogFile(path, S), then readLogFile(path)
StoreWriteRead(S) ==
    /\ LET w == writeLogFile(disk, S) IN
       /\ disk' = w.disk
       /\ call' = [op |-> "write", pre |-> disk, entries |-> S,
                   threw |-> w.threw, res |-> readLogFile(w.disk)]
    /\ UNCHANGED <<now, fb, inv, secret, appended, sheet, ts, env>>

\* fs.writeFileSync opens the file with flag 'w', which truncates it, then
\* writes the text, then closes.  What the file holds when the process stops
\* after the open, part of the way through the text, or after all of it.
WriteStages == {"opened", "partial", "complete"}

StoppedWrite(d, entries, stage) ==
    IF ~d.dir THEN d
    ELSE [d EXCEPT !.exists = TRUE,
                   !.raw = IF stage = "opened" THEN <<>>
                           ELSE IF stage = "partial" THEN <<GarbageTok>>
                           ELSE <<Stringify(entries)>>]

\* writeLogFile(path, S) during which the process stops, then a later
\* readLogFile(path)
StoreWriteStopped(S, stage) ==
    /\ LET d1 == StoppedWrite(disk, S, stage) IN
       /\ disk' = d1
       /\ call' = [op |-> "stopped", pre |-> disk, entries |-> S,
                   stage |-> stage, res |-> readLogFile(d1)]
    /\ UNCHANGED <<now, fb, inv, secret, appended, sheet, ts, env>>

FileInit ==
    /\ now = 0
    /\ disk \in FileDisks
    /\ call = NoCall
    /\ fb = NoFb
    /\ inv = <<>>
    /\ secret = FALSE
    /\ appended = <<>>
    /\ sheet = NoSheet
    /\ ts = <<>>
    /\ env = NoEnv

FileNext ==
    \/ StoreRead
    \/ \E S \in WriteInputs : StoreWriteRead(S)
    \/ \E S \in WriteInputs, stage \in WriteStages : StoreWriteStopped(S, stage)
    \/ \E text \in Texts : StoreAppend(text)
    \/ \E text \in Texts : StoreIsDuplicate(text)

SpecFile == FileInit /\ [][FileNext]_vars

----------------------------------------------------------------------------
(* Claims about reads and writes, under SpecFile *)

Blank(d) == ~d.exists \/ RawTrim(d.raw) = <<>>
ValidSequence(d) ==
    d.exists /\ Len(RawTrim(d.raw)) = 1 /\ RawTrim(d.raw)[1].t = "json"
Malformed(d) == ~Blank(d) /\ ~ValidSequence(d)

\* C15: readLogFile returns the empty sequence, without error, when the path
\* does not exist or the file is empty or white space only; it raises a
\* parse error when the file has content that is not a valid serialized
\* sequence of records; reading never changes the file.
C15_ReadContract ==
    call.op = "read" =>
        /\ disk = call.pre
        /\ Blank(call.pre) => call.res = Ok(<<>>)
        /\ Malformed(call.pre) => call.res.threw

\* C16: on a malformed day log appendLogEntry and isDuplicateEntry raise an
\* error to the caller and the file content stays as it was: not truncated,
\* not repaired, not overwritten with the new record alone.
C16_MalformedIsHardError ==
    /\ call.op = "append" /\ Malformed(call.pre) =>
         call.threw /\ disk.exists /\ disk.raw = call.pre.raw
    /\ call.op = "isDuplicate" /\ Malformed(disk) => call.res.threw

\* C22: if the process stops at any point during a write of a day log
\* (after the truncation, part of the way through, after all of it), a later
\* readLogFile yields the whole old sequence or the whole new one, never an
\* empty, truncated or unparseable file.
C22_CrashSafe ==
    call.op = "stopped" /\ Readable(call.pre) /\ call.pre.dir =>
        /\ CanPush(call.res)
        /\ call.res.val = Stored(call.pre) \/ call.res.val = call.entries

\* C23: writeLogFile(path, S) succeeds and creates the missing parent
\* directory when the parent directory of path does not exist, as
\* appendLogEntry and writeTimesheetFile do.
C23_WriteCreatesDirs ==
    call.op = "write" /\ ~call.pre.dir =>
        /\ ~call.threw
        /\ disk.dir /\ disk.exists
        /\ call.res = Ok(call.entries)

\* C17: for every sequence of records S, writeLogFile(path, S) followed by
\* readLogFile(path) returns a sequence equal to S in the same order, and
\* the file then holds the serialization of S and nothing of its previous
\* content.
C17_RoundTrip ==
    call.op = "write" /\ ~call.threw =>
        /\ call.res = Ok(call.entries)
        /\ \A k \in 1..Len(call.entries) : call.res.val[k] = call.entries[k]
        /\ disk.exists /\ disk.raw = <<Stringify(call.entries)>>

C17_Witness ==
    /\ call.op = "write" /\ ~call.threw
    /\ call.pre = LegacyFile
    /\ Len(call.entries) = 2 /\ call.entries[1] # call.entries[2]
    /\ "aiPrompt" \notin DOMAIN call.entries[1]
    /\ call.res.val = call.entries

----------------------------------------------------------------------------
(* The fallback orchestrator and the summarization client *)

FALLBACK_MODELS == <<"gemini-3-flash-preview", "gemini-2.5-pro", "gemini-2.5-flash">>

\* Names for candidate lists of any length up to 5
ModelPool == FALLBACK_MODELS \o <<"gemini-2.0-flash-preview", "gemini-1.5-flash">>

\* What one model.generateContent call can do: answer with a text, or fail
ErrorKinds == {"rate limit", "5xx", "auth"}
RawOutputs == {<<"s">>, <<WS, "s", WS, "t", WS>>, <<WS>>, <<>>}
Success(raw) == [ok |-> TRUE, raw |-> raw, kind |-> "none"]
Failure(kind) == [ok |-> FALSE, raw |-> <<>>, kind |-> kind]
Outcomes == {Success(raw) : raw \in RawOutputs} \cup {Failure(k) : k \in ErrorKinds}

\* An error object: which call raised it, and what it was
Error(model, kind) == [model |-> model, kind |-> kind]
NoError == Error("none", "undefined")
AllFailedError == Error("none", "All fallback models failed.")

Thrown_lastError(lastError) == lastError

\* throw lastError || new Error('All fallback models failed.')
Thrown(lastError) == IF lastError = NoError THEN AllFailedError ELSE lastError

\* The frame of one call: idx is the loop's position in models; calls and
\* outs list the candidates invoked and what each did; warns lists the
\* candidates whose failure console.warn reported.
FbLoop(f) ==
    IF f.status = "running" /\ f.idx > Len(f.models)
    THEN [f EXCEPT !.status = "thrown", !.error = Thrown(f.lastError)]
    ELSE f

FbNew(models) ==
    FbLoop([status |-> "running", models |-> models, idx |-> 1,
            calls |-> <<>>, outs |-> <<>>, warns |-> <<>>,
            lastError |-> NoError, result |-> <<>>, error |-> NoError])

Candidate_reversed(f) == f.models[Len(f.models) + 1 - f.idx]

\* for (const modelName of models)
Candidate(f) == f.models[f.idx]

\* return result.response.text().trim()
OnSuccess(f, raw) ==
    [f EXCEPT !.status = "returned", !.result = Trim(raw)]

OnFailure_retry(f, kind) ==
    [f EXCEPT !.warns = Append(@, Candidate(f)),
              !.lastError = Error(Candidate(f), kind),
              !.idx = IF f.lastError.model = Candidate(f) THEN @ + 1 ELSE @]

OnFailure_firstError(f, kind) ==
    [f EXCEPT !.warns = Append(@, Candidate(f)),
              !.lastError = IF @ = NoError THEN Error(Candidate(f), kind) ELSE @,
              !.idx = @ + 1]

\* catch (err): console.warn, lastError = err, on to the next candidate
OnFailure(f, kind) ==
    [f EXCEPT !.warns = Append(@, Candidate(f)),
              !.lastError = Error(Candidate(f), kind),
              !.idx = @ + 1]

\* One turn of the loop: the candidate is invoked and answers or fails
FbStep(f, outcome) ==
    LET g == [f EXCEPT !.calls = Append(@, Candidate(f)),
                       !.outs = Append(@, outcome)]
    IN  IF outcome.ok THEN OnSuccess(g, outcome.raw)
        ELSE FbLoop(OnFailure(g, outcome.kind))

Pending == [threw |-> FALSE, val |-> <<"<pending>">>]

SumReturn_rethrow(g) ==
    IF g.status = "returned" THEN Ok(g.result)
    ELSE IF g.status = "thrown" THEN Threw
    ELSE Pending

\* try { return await generateContentWithFallback(...) } catch { return placeholder }
SumReturn(g) ==
    IF g.status = "returned" THEN Ok(g.result)
    ELSE IF g.status = "thrown" THEN Ok(UNAVAILABLE)
    ELSE Pending

SumNew_noGuard(codeSnippet) ==
    LET g == FbNew(FALLBACK_MODELS) IN
    [fn |-> "summarizeCode", snippet |-> codeSnippet, gen |-> g,
     ret |-> SumReturn(g)]

SumNew(codeSnippet) ==
    IF Trim(codeSnippet) = <<>>
    THEN [fn |-> "summarizeCode", snippet |-> codeSnippet,
          gen |-> [FbNew(<<>>) EXCEPT !.status = "unused", !.error = NoError],
          ret |-> Ok(NO_CONTEXT)]
    ELSE LET g == FbNew(FALLBACK_MODELS) IN
         [fn |-> "summarizeCode", snippet |-> codeSnippet, gen |-> g,
          ret |-> SumReturn(g)]

SumStep(c, outcome) ==
    LET g == FbStep(c.gen, outcome) IN
    [c EXCEPT !.gen = g, !.ret = SumReturn(g)]

Snippets == {<<>>, <<WS>>, <<"code">>, <<WS, "code", WS>>}

FallbackCall(models) ==
    /\ fb = NoFb
    /\ fb' = [fn |-> "generateContentWithFallback", gen |-> FbNew(models)]
    /\ UNCHANGED <<now, disk, call, inv, secret, appended, sheet, ts, env>>

\* Which contextInstruction the prompt is built with, if one is built
Instruction(codeSnippet, taskDescription) ==
    IF Trim(codeSnippet) = <<>> THEN "none"
    ELSE IF taskDescription \notin {UNDEFINED, ""} THEN "task" ELSE "generic"

TaskHints == {UNDEFINED, "", "fix bug"}

SummarizeCall(codeSnippet, taskDescription) ==
    /\ fb = NoFb
    /\ fb' = SumNew(codeSnippet) @@
              [hint |-> taskDescription,
               instruction |-> Instruction(codeSnippet, taskDescription)]
    /\ UNCHANGED <<now, disk, call, inv, secret, appended, sheet, ts, env>>

ModelAnswers(outcome) ==
    /\ fb # NoFb
    /\ fb.gen.status = "running"
    /\ fb' = IF fb.fn = "summarizeCode" THEN SumStep(fb, outcome)
             ELSE [fb EXCEPT !.gen = FbStep(fb.gen, outcome)]
    /\ UNCHANGED <<now, disk, call, inv, secret, appended, sheet, ts, env>>

FallbackInit ==
    /\ now = 0
    /\ disk = NoDir
    /\ call = NoCall
    /\ fb = NoFb
    /\ inv = <<>>
    /\ secret = FALSE
    /\ appended = <<>>
    /\ sheet = NoSheet
    /\ ts = <<>>
    /\ env = NoEnv

FallbackNext ==
    \/ \E n \in 0..MaxModels : FallbackCall(SubSeq(ModelPool, 1, n))
    \/ \E snippet \in Snippets, hint \in TaskHints : SummarizeCall(snippet, hint)
    \/ \E outcome \in Outcomes : ModelAnswers(outcome)

SpecFallback == FallbackInit /\ [][FallbackNext]_vars

----------------------------------------------------------------------------
(* Claims about the orchestrator and the summarization client, under       *)
(* SpecFallback                                                            *)

FbActive == fb # NoFb /\ fb.gen.status # "unused"
Failed(g) == {k \in 1..Len(g.outs) : ~g.outs[k].ok}

\* C6: the candidates are invoked strictly in list order; a failure of any
\* kind moves on to the next candidate; the trimmed output of the first
\* candidate that succeeds is returned and no candidate is invoked after it;
\* each failure is logged once.  With [A, B, C], A and B failing and C
\* succeeding: the result is C's output, A's and B's failures are logged once
\* each, C is invoked once.
C6_FallbackOrder ==
    FbActive =>
        LET g == fb.gen
            n == Len(g.calls)
        IN  /\ n <= Len(g.models)
            /\ \A k \in 1..n : g.calls[k] = g.models[k]
            /\ \A k \in 1..(n - 1) : ~g.outs[k].ok
            /\ n > 0 /\ ~g.outs[n].ok /\ n < Len(g.models) => g.status = "running"
            /\ g.status = "returned" <=> (n > 0 /\ g.outs[n].ok)
            /\ g.status = "returned" =>
                 /\ g.result = Trim(g.outs[n].raw)
                 /\ g.result # <<>> => Head(g.result) # WS /\ g.result[Len(g.result)] # WS
            /\ g.warns = [k \in 1..Cardinality(Failed(g)) |-> g.models[k]]
            /\ Len(g.models) = 3 /\ n = 3 /\ g.outs[3].ok =>
                 /\ g.result = Trim(g.outs[3].raw)
                 /\ g.warns = <<g.models[1], g.models[2]>>
                 /\ Cardinality({k \in 1..n : g.calls[k] = g.models[3]}) = 1

C6_Witness ==
    /\ FbActive
    /\ Len(fb.gen.models) = 3 /\ Len(fb.gen.calls) = 3
    /\ fb.gen.outs[1].kind = "auth" /\ fb.gen.outs[2].kind = "rate limit"
    /\ fb.gen.outs[3].raw = <<WS, "s", WS, "t", WS>>
    /\ fb.gen.status = "returned"
    /\ fb.gen.result = <<"s", WS, "t">>

\* C7: within one call each candidate is attempted at most once, so the
\* number of model calls never exceeds the length of the candidate list, and
\* equals it when every candidate fails.
C7_OneAttemptEach ==
    FbActive =>
        LET g == fb.gen
            n == Len(g.calls)
        IN  /\ n <= Len(g.models)
            /\ \A j, k \in 1..n : j # k => g.calls[j] # g.calls[k]
            /\ g.status = "thrown" => n = Len(g.models) /\ Failed(g) = 1..n
            /\ Failed(g) = 1..n /\ g.status # "running" => n = Len(g.models)

C7_Witness ==
    /\ FbActive
    /\ fb.gen.status = "thrown"
    /\ Len(fb.gen.models) = 3 /\ Len(fb.gen.calls) = 3

\* C8: when every candidate of a non-empty list fails, the one error raised
\* is the failure of the last candidate in the list; the earlier failures
\* are only logged.
C8_LastErrorRaised ==
    FbActive /\ fb.gen.status = "thrown" /\ fb.gen.models # <<>> =>
        LET g == fb.gen
            n == Len(g.models)
        IN  /\ Len(g.outs) = n
            /\ g.error = Error(g.models[n], g.outs[n].kind)
            /\ Len(g.warns) = n

C8_Witness ==
    /\ FbActive /\ fb.gen.status = "thrown"
    /\ Len(fb.gen.models) = 3
    /\ fb.gen.outs[1].kind = "auth" /\ fb.gen.outs[3].kind = "5xx"
    /\ fb.gen.error = Error(fb.gen.models[3], "5xx")

C21_BlankContext ==
    fb # NoFb /\ fb.fn = "summarizeCode" /\ Trim(fb.snippet) = <<>> =>
        /\ fb.ret = Ok(NO_CONTEXT)
        /\ fb.gen.status = "unused"
        /\ fb.gen.calls = <<>> /\ fb.gen.outs = <<>>
        /\ fb.instruction = "none"

C21_Witness ==
    /\ fb # NoFb /\ fb.fn = "summarizeCode"
    /\ fb.snippet = <<WS>> /\ fb.hint = "fix bug"
    /\ fb.ret = Ok(NO_CONTEXT) /\ fb.gen.calls = <<>>

----------------------------------------------------------------------------
(* The commands.  Each invocation is a sequence of steps separated by its  *)
(* awaits; the steps of different invocations interleave.  An extension    *)
(* host runs one step at a time to its next await, so the synchronous      *)
(* appendLogEntry is cut in two (read, write) only for invocations of      *)
(* another host, which is another process on the same files.  Invocations  *)
(* are numbered in the order they start, and hosts in the order they are   *)
(* first used.                                                             *)

Invs == 1..MaxInv
Hosts == {1, 2}

\* getISTTimestamp(): the current instant as an ISO-8601 string
getISTTimestamp(ms) == toISOString(ms)

\* SHA-256 of a text, as 64 hexadecimal digits
SHA256(text) ==
    CASE text = <<>> ->
           "e3b0c44298fc1c149afbf4c8996fb92427ae41e4649b934ca495991b7852b855"
      [] text = <<WS>> ->
           "36a9e7f1c95b82ffb99743e0c5c4ce95d83c9a430aac59f84ef3cbfab6145068"
      [] text = <<"code">> ->
           "5694d08a2e53ffcae0c3103e5ad6f6076abd960eb1f8a56577040bc1028f702b"
      [] text = <<WS, "code", WS>> ->
           "89733236b211acccf88aa24ead3ef86c2741a5de963617a390aea5aa2d69acd9"

\* crypto.createHash('sha256'): a new hash object on every call
createHash == [algorithm |-> "sha256", data |-> <<>>]
update(h, text) == [h EXCEPT !.data = @ \o text]
digest(h) == SHA256(h.data)

hashSnippet_ofNothing(text) == digest(createHash)

hashSnippet(text) == digest(update(createHash, text))

Idle ==
    [pc |-> "idle", cmd |-> "", host |-> 0, timestamp |-> <<0, 0>>,
     text |-> "", source |-> "", snippet |-> <<>>, sum |-> NoFb,
     models |-> "none", summary |-> <<>>, entries |-> <<>>, outcome |-> "none",
     dup |-> "unchecked", keyed |-> FALSE, appendCalls |-> 0, hash |-> ""]

\* The outcomes model.generateContent has inside a command
CmdOutcomes == {Success(<<"s">>), Success(<<WS>>), Failure("5xx")}
CmdSnippets == {<<>>, <<"code">>}
\* The editor context of a capture while the other commands run
CaptureSnippets == {<<"code">>}
CmdInitDisks == {NoDir, MalformedFile, LegacyFile}

CanStart(i, h) ==
    /\ inv[i].pc = "idle"
    /\ i > 1 => inv[i - 1].pc # "idle"
    /\ h <= i
    /\ \A k \in Invs : inv[k].pc = "appending" => inv[k].host # h

CanStep_suspended(i) == TRUE

\* No step of invocation i runs while an invocation of the same host is
\* inside its synchronous appendLogEntry
CanStep(i) ==
    \A k \in Invs \ {i} :
        inv[k].pc = "appending" => inv[k].host # inv[i].host

\* The invocation ends; what it held in local variables is gone
Finish(i, outcome) ==
    /\ inv' = [inv EXCEPT ![i].pc = "done", ![i].outcome = outcome,
                          ![i].snippet = <<>>, ![i].sum = NoFb,
                          ![i].entries = <<>>, ![i].hash = ""]
    /\ UNCHANGED <<disk, appended>>

\* appendLogEntry up to its read: ensureDir, readLogFile
BeginAppend(i, summary, models) ==
    LET d1 == ensureDir(disk)
        r == readLogFile(d1)
    IN  /\ disk' = d1
        /\ UNCHANGED appended
        /\ inv' = [inv EXCEPT
             ![i].pc = IF ~CanPush(r) THEN "done" ELSE "appending",
             ![i].outcome = IF ~CanPush(r) THEN "writeFailed" ELSE "none",
             ![i].entries = r.val,
             ![i].appendCalls = @ + 1,
             ![i].summary = summary, ![i].models = models,
             ![i].snippet = <<>>, ![i].sum = NoFb]

\* The record the invocation persists
EntryOf(c) ==
    [codeContextSnippetHash |-> c.hash] @@
        LogEntry(c.timestamp, c.text, c.summary, c.source)

WriteBack_reread(i) == Append(Stored(disk), EntryOf(inv[i]))

\* entries.push(entry): the sequence appendLogEntry read, and the record
WriteBack(i) == Append(inv[i].entries, EntryOf(inv[i]))

AppendWrite_again(i) ==
    /\ inv[i].pc = "appending"
    /\ LET w == writeLogFile(disk, WriteBack(i)) IN
       /\ disk' = w.disk
       /\ appended' = [appended EXCEPT ![i] = IF w.threw THEN @ ELSE @ + 1]
       /\ inv' = [inv EXCEPT
            ![i].pc = IF appended[i] = 0 /\ ~w.threw THEN "appending" ELSE "done",
            ![i].outcome = IF w.threw THEN "writeFailed"
                           ELSE IF appended[i] = 0 THEN "none" ELSE "logged"]
    /\ UNCHANGED <<now, call, fb, secret, sheet, ts, env>>

\* appendLogEntry's write, and the notification after it
AppendWrite(i) ==
    /\ inv[i].pc = "appending"
    /\ LET w == writeLogFile(disk, WriteBack(i)) IN
       /\ disk' = w.disk
       /\ appended' = [appended EXCEPT ![i] = IF w.threw THEN @ ELSE @ + 1]
       /\ inv' = [inv EXCEPT ![i].pc = "done",
                             ![i].outcome = IF w.threw THEN "writeFailed" ELSE "logged"]
    /\ UNCHANGED <<now, call, fb, secret, sheet, ts, env>>

StartLogActivity(i, h) ==
    /\ CanStart(i, h)
    /\ inv' = [inv EXCEPT ![i].pc = "input", ![i].cmd = "logActivity", ![i].host = h]
    /\ UNCHANGED <<now, disk, call, fb, secret, appended, sheet, ts, env>>

DescriptionEntered_guarded(i, description, codeSnippet) ==
    /\ inv[i].pc = "input" /\ inv[i].cmd = "logActivity"
    /\ CanStep(i)
    /\ IF description = UNDEFINED \/ description = ""
       THEN Finish(i, "cancelled")
       ELSE LET dup == isDuplicateEntry(disk, description, now) IN
            IF ~dup.threw /\ dup.val
            THEN Finish(i, "duplicate")
            ELSE /\ inv' = [inv EXCEPT ![i].pc = "key", ![i].text = description,
                                       ![i].source = "manual", ![i].keyed = TRUE,
                                       ![i].timestamp = getISTTimestamp(now),
                                       ![i].snippet = codeSnippet,
                                       ![i].hash = hashSnippet(codeSnippet)]
                 /\ UNCHANGED <<disk, appended>>
    /\ UNCHANGED <<now, call, fb, secret, sheet, ts, env>>

\* showInputBox returns; the editor context and the timestamp are taken
DescriptionEntered(i, description, codeSnippet) ==
    /\ inv[i].pc = "input" /\ inv[i].cmd = "logActivity"
    /\ CanStep(i)
    /\ IF description = UNDEFINED \/ description = ""
       THEN Finish(i, "cancelled")
       ELSE /\ inv' = [inv EXCEPT ![i].pc = "key", ![i].text = description,
                                  ![i].source = "manual", ![i].keyed = TRUE,
                                  ![i].timestamp = getISTTimestamp(now),
                                  ![i].snippet = codeSnippet,
                                  ![i].hash = hashSnippet(codeSnippet)]
            /\ UNCHANGED <<disk, appended>>
    /\ UNCHANGED <<now, call, fb, secret, sheet, ts, env>>

StartCapture(i, h, workspace) ==
    /\ CanStart(i, h)
    /\ inv' = [inv EXCEPT ![i].cmd = "captureAIPromptAndLog", ![i].host = h,
                          ![i].timestamp = getISTTimestamp(now),
                          ![i].pc = IF workspace THEN "input" ELSE "done",
                          ![i].outcome = IF workspace THEN "none" ELSE "noWorkspace"]
    /\ UNCHANGED <<now, disk, call, fb, secret, appended, sheet, ts, env>>

DuplicateExit_ignore(dup) == FALSE

\* if (isDuplicateEntry(logFilePath, aiPrompt)) { showInformationMessage; return; }
DuplicateExit(dup) == dup.val

\* resolvePrompt returns; the duplicate check follows at once, and the code
\* context is gathered and getOrPromptApiKey called when the check lets the
\* invocation go on
PromptResolved(i, text, source, codeSnippet) ==
    /\ inv[i].pc = "input" /\ inv[i].cmd = "captureAIPromptAndLog"
    /\ CanStep(i)
    /\ IF text = UNDEFINED
       THEN Finish(i, "cancelled")
       ELSE LET dup == isDuplicateEntry(disk, text, now)
                exit == ~dup.threw /\ DuplicateExit(dup)
            IN
            /\ inv' = [inv EXCEPT
                 ![i].text = text, ![i].source = source,
                 ![i].dup = IF dup.threw THEN "threw"
                            ELSE IF dup.val THEN "yes" ELSE "no",
                 ![i].pc = IF dup.threw \/ exit THEN "done" ELSE "key",
                 ![i].keyed = ~(dup.threw \/ exit),
                 ![i].snippet = IF dup.threw \/ exit THEN <<>> ELSE codeSnippet,
                 ![i].hash = IF dup.threw \/ exit THEN ""
                             ELSE hashSnippet(codeSnippet),
                 ![i].outcome = IF dup.threw THEN "unhandled"
                                ELSE IF exit THEN "duplicate" ELSE "none"]
            /\ UNCHANGED <<disk, appended>>
    /\ UNCHANGED <<now, call, fb, secret, sheet, ts, env>>

KeyReturns_keyOptional(i, entered) ==
    /\ inv[i].pc = "key"
    /\ CanStep(i)
    /\ secret' = (secret \/ entered)
    /\ IF inv[i].cmd = "logActivity"
       THEN /\ inv' = [inv EXCEPT ![i].pc = "summary",
                                  ![i].sum = SumNew(inv[i].snippet),
                                  ![i].snippet = <<>>]
            /\ UNCHANGED <<disk, appended>>
       ELSE BeginAppend(i, UNAVAILABLE, "unused")
    /\ UNCHANGED <<now, call, fb, sheet, ts, env>>

\* getOrPromptApiKey returns: the stored key, the key the user enters, or none
KeyReturns(i, entered) ==
    /\ inv[i].pc = "key"
    /\ CanStep(i)
    /\ IF ~secret /\ ~entered
       THEN Finish(i, "noKey") /\ UNCHANGED secret
       ELSE /\ secret' = TRUE
            /\ IF inv[i].cmd = "logActivity"
               THEN /\ inv' = [inv EXCEPT ![i].pc = "summary",
                                          ![i].sum = SumNew(inv[i].snippet),
                                          ![i].snippet = <<>>]
                    /\ UNCHANGED <<disk, appended>>
               ELSE BeginAppend(i, UNAVAILABLE, "unused")
    /\ UNCHANGED <<now, call, fb, sheet, ts, env>>

\* One candidate answers or fails inside summarizeCode
CmdModelAnswers(i, outcome) ==
    /\ inv[i].pc = "summary"
    /\ inv[i].sum.gen.status = "running"
    /\ CanStep(i)
    /\ inv' = [inv EXCEPT ![i].sum = SumStep(@, outcome)]
    /\ UNCHANGED <<now, disk, call, fb, secret, appended, sheet, ts, env>>

\* let summary = placeholder; try { summary = await summarizeCode } catch {}
SummaryOf(ret) == IF ret.threw THEN UNAVAILABLE ELSE ret.val

\* The path is resolved and the entry appended
ResolveAndAppend(i, workspace) ==
    IF workspace
    THEN BeginAppend(i, SummaryOf(inv[i].sum.ret), inv[i].sum.gen.status)
    ELSE Finish(i, "noWorkspace")

SummaryReturns_abortOnFailure(i, workspace) ==
    /\ inv[i].pc = "summary"
    /\ inv[i].sum.ret # Pending
    /\ CanStep(i)
    /\ IF inv[i].sum.gen.status = "thrown" THEN Finish(i, "noSummary")
       ELSE ResolveAndAppend(i, workspace)
    /\ UNCHANGED <<now, call, fb, secret, sheet, ts, env>>

\* summarizeCode has returned: logActivity goes on to persist
SummaryReturns(i, workspace) ==
    /\ inv[i].pc = "summary"
    /\ inv[i].sum.ret # Pending
    /\ CanStep(i)
    /\ ResolveAndAppend(i, workspace)
    /\ UNCHANGED <<now, call, fb, secret, sheet, ts, env>>

Init ==
    /\ now = 0
    /\ disk \in CmdInitDisks
    /\ call = NoCall
    /\ fb = NoFb
    /\ inv = [i \in Invs |-> Idle]
    /\ secret \in BOOLEAN
    /\ appended = [i \in Invs |-> 0]
    /\ sheet = NoSheet
    /\ ts = <<>>
    /\ env = NoEnv

Next ==
    \/ now < MaxMinutes * 60000 /\ Tick(60000)
    \/ \E i \in Invs, h \in Hosts : StartLogActivity(i, h)
    \/ \E i \in Invs, h \in Hosts, workspace \in BOOLEAN : StartCapture(i, h, workspace)
    \/ \E i \in Invs, d \in Texts \cup {UNDEFINED, ""}, c \in CmdSnippets :
          DescriptionEntered(i, d, c)
    \/ \E i \in Invs, t \in Texts \cup {UNDEFINED}, s \in {"clipboard"},
          c \in CaptureSnippets :
          PromptResolved(i, t, s, c)
    \/ \E i \in Invs, entered \in BOOLEAN : KeyReturns(i, entered)
    \/ \E i \in Invs, outcome \in CmdOutcomes : CmdModelAnswers(i, outcome)
    \/ \E i \in Invs, workspace \in BOOLEAN : SummaryReturns(i, workspace)
    \/ \E i \in Invs : AppendWrite(i)

Spec == Init /\ [][Next]_vars

----------------------------------------------------------------------------
(* Claims about the commands, under Spec *)

Logged(i) == inv[i].outcome = "logged"
OthersWroteNothing(i, j) == \A k \in Invs \ {i, j} : appended[k] = 0

\* C2: appendLogEntry's read and write are separate steps with no lock:
\* when two invocations have both read the same sequence S and both have
\* written, the file holds S and only one of the two records (the last
\* writer's), the other record is lost.
C2_LostUpdate ==
    \A i, j \in Invs :
        /\ i # j /\ Logged(i) /\ Logged(j)
        /\ inv[i].entries = inv[j].entries
        /\ OthersWroteNothing(i, j)
        => /\ Len(Stored(disk)) = Len(inv[i].entries) + 1
           /\ \/ Stored(disk) = Append(inv[i].entries, EntryOf(inv[i]))
              \/ Stored(disk) = Append(inv[j].entries, EntryOf(inv[j]))

C2_Witness ==
    /\ Logged(1) /\ Logged(2)
    /\ appended[1] = 1 /\ appended[2] = 1
    /\ inv[1].entries = inv[2].entries
    /\ inv[1].text # inv[2].text
    /\ Stored(disk) = Append(inv[1].entries, EntryOf(inv[1]))

\* C4: two runs of Capture AI Prompt and Log with the same prompt text
\* within 2 minutes, nothing else appended in between: the second run
\* appends nothing, so the day log gains one record, in every interleaving
\* of the two runs.
C4_DuplicateProtection ==
    \A i, j \in Invs :
        /\ i < j
        /\ inv[i].cmd = "captureAIPromptAndLog" /\ inv[i].pc = "done"
        /\ inv[j].cmd = "captureAIPromptAndLog" /\ inv[j].pc = "done"
        /\ inv[i].text = inv[j].text /\ inv[i].text \in Texts
        /\ now - InstantOf(inv[i]) < TWO_MINUTES_MS
        /\ OthersWroteNothing(i, j)
        => appended[i] + appended[j] <= 1

HasInputs(i) ==
    /\ inv[i].cmd = "logActivity" /\ inv[i].pc = "done"
    /\ inv[i].outcome \notin {"cancelled", "noKey", "noWorkspace"}

C10_Persisted ==
    \A i \in Invs : HasInputs(i) /\ Readable(disk) =>
        /\ Logged(i) /\ appended[i] = 1
        /\ inv[i].models = "thrown" => inv[i].summary = UNAVAILABLE

C10_Written ==
    \A i \in Invs : inv[i].cmd = "logActivity" /\ appended'[i] # appended[i] =>
        /\ Stored(disk') # <<>>
        /\ Stored(disk')[Len(Stored(disk'))] = EntryOf(inv'[i])
        /\ inv[i].models = "thrown" =>
             Stored(disk')[Len(Stored(disk'))].summary = UNAVAILABLE

C11_NonEmptySummary ==
    Readable(disk) =>
        \A k \in 1..Len(Stored(disk)) :
            /\ Stored(disk)[k].timestamp # <<>>
            /\ Stored(disk)[k].summary # <<>>

\* C18: in every reachable state of the day log the record timestamps are
\* non-decreasing in file order, also when invocations overlap and one that
\* started later appends before one that started earlier.
C18_Chronological ==
    Readable(disk) =>
        \A k \in 1..(Len(Stored(disk)) - 1) :
            InstantOf(Stored(disk)[k]) <= InstantOf(Stored(disk)[k + 1])

C19_Counts ==
    \A i \in Invs :
        /\ inv[i].appendCalls <= 1
        /\ appended[i] <= inv[i].appendCalls
        /\ Logged(i) => appended[i] = 1

\* No step takes a record out of the day log or alters one
C19_NoRecordLost ==
    Readable(disk) => Readable(disk') /\ IsPrefix(Stored(disk), Stored(disk'))

\* C19 as stated: at most one appendLogEntry call per invocation, exactly one
\* append on success, and no command ever changes or removes a record
\* already in a day log.
C19_NeverRemoved == [](C19_Counts) /\ [][C19_NoRecordLost]_vars

C19_Frame ==
    /\ (\A i \in Invs : appended'[i] = appended[i]) =>
          disk'.raw = disk.raw /\ disk'.exists = disk.exists
    /\ \A i \in Invs : appended'[i] # appended[i] =>
          /\ IsPrefix(inv[i].entries, Stored(disk'))
          /\ Stored(disk') = Append(inv[i].entries, EntryOf(inv[i]))

\* C19 amended: every Log Activity or Capture AI Prompt invocation calls
\* appendLogEntry at most once; one that ends with the success notification
\* has appended its record exactly once; a step that is not the write of an
\* appendLogEntry leaves the file as it is, and the write keeps, unchanged
\* and in order, every record its appendLogEntry read and adds its own (a
\* record another process wrote between that read and the write is not
\* kept).
C19_ExactlyOnce == [](C19_Counts) /\ [][C19_Frame]_vars

C19_Witness ==
    \E i \in Invs :
        /\ inv[i].cmd = "captureAIPromptAndLog" /\ Logged(i)
        /\ inv[i].appendCalls = 1 /\ appended[i] = 1
        /\ Len(inv[i].entries) = 1
        /\ Stored(disk) = Append(inv[i].entries, EntryOf(inv[i]))

IsCapture(i) == inv[i].cmd = "captureAIPromptAndLog"

C20_NoEffect ==
    \A i \in Invs : IsCapture(i) =>
        /\ inv[i].dup = "yes" =>
             /\ inv[i].pc = "done" /\ inv[i].outcome = "duplicate"
             /\ ~inv[i].keyed
             /\ inv[i].appendCalls = 0 /\ appended[i] = 0
             /\ inv[i].sum = NoFb /\ inv[i].models = "none"
        /\ inv[i].keyed \/ inv[i].appendCalls > 0 => inv[i].dup = "no"

C20_GuardStep ==
    \A i \in Invs : IsCapture(i) /\ inv[i].dup = "unchecked" /\ inv'[i].dup = "yes" =>
        /\ disk' = disk
        /\ secret' = secret
        /\ appended' = appended

\* C20: when the duplicate guard reports a duplicate, the Capture AI Prompt
\* invocation changes nothing: the day log is as before, no model call and
\* no API-key lookup is made, and it ends with the informational message;
\* the duplicate check comes before the API-key lookup and the append.
C20_DuplicateNoOp == [](C20_NoEffect) /\ [][C20_GuardStep]_vars

C20_Witness ==
    \E i \in Invs :
        /\ IsCapture(i) /\ inv[i].dup = "yes" /\ inv[i].outcome = "duplicate"
        /\ Len(Stored(disk)) > 0
        /\ PromptOf(Stored(disk)[Len(Stored(disk))]) = inv[i].text
        /\ now - InstantOf(Stored(disk)[Len(Stored(disk))]) < TWO_MINUTES_MS

\* C24: every storage failure in Log Activity and Capture AI Prompt (a
\* malformed day log met by the duplicate check or by the append, a failing
\* write) ends the invocation with the command's own error message and
\* without the success notification; no storage error leaves the handler
\* unreported.
C24_StorageErrorsReported ==
    \A i \in Invs :
        /\ inv[i].pc = "done"
        /\ inv[i].dup = "threw" \/ (inv[i].appendCalls = 1 /\ appended[i] = 0)
        => inv[i].outcome = "writeFailed"

----------------------------------------------------------------------------
(* Generate Timesheet.  A model's text is a sequence of tokens: white      *)
(* space, a fence, the word json, prose, or a whole JSON document.        *)
(* "{A}" and "{B}" are documents of the Timesheet shape, "[]" is an empty  *)
(* array and "{date}" an object with a date and no tasks.                  *)

\* The three backquotes that open or close a fenced block
FENCE == "<fence>"

StripOpen_fenceOnly(s) ==
    IF s # <<>> /\ Head(s) = FENCE THEN TrimStart(Tail(s)) ELSE s

\* The first replace: a fence at the start, an optional json, white space
StripOpen(s) ==
    IF s # <<>> /\ Head(s) = FENCE
    THEN LET r == Tail(s) IN
         TrimStart(IF r # <<>> /\ Head(r) \in {"json", "JSON"} THEN Tail(r) ELSE r)
    ELSE s

\* The second replace: white space and a fence at the end
StripClose(s) ==
    IF s # <<>> /\ s[Len(s)] = FENCE
    THEN TrimEnd(SubSeq(s, 1, Len(s) - 1))
    ELSE s

StripFences(s) == Trim(StripClose(StripOpen(s)))

\* JSON values: what kind, which keys, and the date and tasks if it has them
NoValue == [kind |-> "none", keys |-> {}, date |-> "", tasks |-> <<>>]
ArrayValue == [kind |-> "array", keys |-> {}, date |-> "", tasks |-> <<>>]
DateOnly == [kind |-> "object", keys |-> {"date"}, date |-> "2026-02-28", tasks |-> <<>>]

\* A value of the Timesheet interface
Timesheet(date, category, task) ==
    [kind |-> "object", keys |-> {"date", "tasks"}, date |-> date,
     tasks |-> <<[category |-> category,
                  entries |-> <<[task |-> task, start |-> "09:00", end |-> "09:30"]>>]>>]

TimesheetA == Timesheet("2026-02-28", "Debugging", "Fix null check")
TimesheetB == Timesheet("2026-02-28", "Code Review", "Review login")
TimesheetOld == Timesheet("2026-02-28", "Coding", "Old task")

\* The same tasks under the date of the next day
TimesheetMarch == Timesheet("2026-03-01", "Debugging", "Fix null check")

JsonDocs == {"{A}", "{B}", "{M}", "[]", "{date}"}

ValueOf(doc) ==
    CASE doc = "{A}" -> TimesheetA
      [] doc = "{B}" -> TimesheetB
      [] doc = "{M}" -> TimesheetMarch
      [] doc = "[]" -> ArrayValue
      [] OTHER -> DateOnly

\* JSON.parse(text) succeeds: the text is one JSON document
JsonTextParses(text) == Len(text) = 1 /\ text[1] \in JsonDocs

TsOk(v) == [threw |-> FALSE, sheet |-> v]
TsThrew == [threw |-> TRUE, sheet |-> NoValue]

generateTimesheetFromLogs_default(g) ==
    IF g.status = "thrown" THEN TsOk([TimesheetA EXCEPT !.tasks = <<>>])
    ELSE LET text == StripFences(g.result) IN
         IF JsonTextParses(text) THEN TsOk(ValueOf(text[1]))
         ELSE TsOk([TimesheetA EXCEPT !.tasks = <<>>])

\* generateTimesheetFromLogs once generateContentWithFallback has ended:
\* strip the fences, JSON.parse, and rethrow whatever was raised
generateTimesheetFromLogs(g) ==
    IF g.status = "thrown" THEN TsThrew
    ELSE LET text == StripFences(g.result) IN
         IF JsonTextParses(text) THEN TsOk(ValueOf(text[1])) ELSE TsThrew

\* JSON.stringify(timesheet, null, 2)
StringifySheet(v) == [t |-> "json", body |-> v]

OldSheet == [exists |-> TRUE, raw |-> <<StringifySheet(TimesheetOld)>>]

writeTimesheetFile_merge(d, s, timesheet, writable) ==
    LET d1 == ensureDir(d)
        merged == IF s.exists
                  THEN [timesheet EXCEPT !.tasks = s.raw[1].body.tasks \o @]
                  ELSE timesheet
    IN  IF ~writable THEN [threw |-> TRUE, disk |-> d1, sheet |-> s]
        ELSE [threw |-> FALSE, disk |-> d1,
              sheet |-> [exists |-> TRUE, raw |-> <<StringifySheet(merged)>>]]

\* ensureDir, then fs.writeFileSync, which fails when the file cannot be
\* opened for writing
writeTimesheetFile(d, s, timesheet, writable) ==
    LET d1 == ensureDir(d) IN
    IF ~writable THEN [threw |-> TRUE, disk |-> d1, sheet |-> s]
    ELSE [threw |-> FALSE, disk |-> d1,
          sheet |-> [exists |-> TRUE, raw |-> <<StringifySheet(timesheet)>>]]

TsIdle ==
    [pc |-> "idle", entries |-> <<>>, gen |-> NoFb, status |-> "none",
     text |-> <<>>, parsed |-> NoValue, outcome |-> "none", wrote |-> 0]

TsRawOutputs ==
    {<<"{A}">>,
     <<FENCE, "json", WS, "{B}", WS, FENCE>>,
     <<WS, FENCE, WS, "{A}", FENCE, WS>>,
     <<"[]">>,
     <<FENCE, "{date}", FENCE>>,
     <<"Here", WS, "{A}">>,
     <<WS>>}
TsOutcomes == {Success(raw) : raw \in TsRawOutputs} \cup {Failure("5xx")}
TsInitDisks == {NoFile, EmptyFile, MalformedFile, LegacyFile}

TsEnd(i, outcome) ==
    /\ ts' = [ts EXCEPT ![i].pc = "done", ![i].outcome = outcome]
    /\ UNCHANGED <<disk, sheet>>

StartGenerate_noEmptyCheck(i, workspace) ==
    /\ ts[i].pc = "idle"
    /\ i > 1 => ts[i - 1].pc # "idle"
    /\ IF ~workspace THEN TsEnd(i, "noWorkspace")
       ELSE IF ~disk.exists THEN TsEnd(i, "noLogFile")
       ELSE LET r == readLogFile(disk) IN
            IF r.threw THEN TsEnd(i, "readFailed")
            ELSE /\ ts' = [ts EXCEPT ![i].pc = "key", ![i].entries = r.val]
                 /\ UNCHANGED <<disk, sheet>>
    /\ UNCHANGED <<now, call, fb, inv, secret, appended, env>>

\* The command up to its first await: the day log is resolved and read
StartGenerate(i, workspace) ==
    /\ ts[i].pc = "idle"
    /\ i > 1 => ts[i - 1].pc # "idle"
    /\ IF ~workspace THEN TsEnd(i, "noWorkspace")
       ELSE IF ~disk.exists THEN TsEnd(i, "noLogFile")
       ELSE LET r == readLogFile(disk) IN
            IF r.threw THEN TsEnd(i, "readFailed")
            ELSE IF IsArray(r) /\ Len(r.val) = 0 THEN TsEnd(i, "empty")
            ELSE /\ ts' = [ts EXCEPT ![i].pc = "key", ![i].entries = r.val]
                 /\ UNCHANGED <<disk, sheet>>
    /\ UNCHANGED <<now, call, fb, inv, secret, appended, env>>

\* getOrPromptApiKey returns; generateTimesheetFromLogs is called
TsKeyReturns(i, entered) ==
    /\ ts[i].pc = "key"
    /\ IF ~secret /\ ~entered
       THEN TsEnd(i, "noKey") /\ UNCHANGED secret
       ELSE /\ secret' = TRUE
            /\ ts' = [ts EXCEPT ![i].pc = "model", ![i].gen = FbNew(FALLBACK_MODELS)]
            /\ UNCHANGED <<disk, sheet>>
    /\ UNCHANGED <<now, call, fb, inv, appended, env>>

SaveTimesheet_alwaysSaved(i, g, workspace, writable) ==
    LET res == generateTimesheetFromLogs(g)
        c == [ts[i] EXCEPT !.pc = "done", !.gen = NoFb, !.status = g.status,
                           !.text = g.result, !.parsed = res.sheet]
    IN  IF res.threw
        THEN /\ ts' = [ts EXCEPT ![i] = [c EXCEPT !.outcome = "generationFailed"]]
             /\ UNCHANGED <<disk, sheet>>
        ELSE IF ~workspace
        THEN /\ ts' = [ts EXCEPT ![i] = [c EXCEPT !.outcome = "noPath"]]
             /\ UNCHANGED <<disk, sheet>>
        ELSE LET w == writeTimesheetFile(disk, sheet, res.sheet, writable) IN
             /\ disk' = w.disk
             /\ sheet' = w.sheet
             /\ ts' = [ts EXCEPT ![i] =
                  [c EXCEPT !.outcome = "saved",
                            !.wrote = IF w.threw THEN 0 ELSE 1]]

\* generateTimesheetFromLogs has returned or raised: steps 4 and 5 of the
\* command, to the notification
SaveTimesheet(i, g, workspace, writable) ==
    LET res == generateTimesheetFromLogs(g)
        c == [ts[i] EXCEPT !.pc = "done", !.gen = NoFb, !.status = g.status,
                           !.text = g.result, !.parsed = res.sheet]
    IN  IF res.threw
        THEN /\ ts' = [ts EXCEPT ![i] = [c EXCEPT !.outcome = "generationFailed"]]
             /\ UNCHANGED <<disk, sheet>>
        ELSE IF ~workspace
        THEN /\ ts' = [ts EXCEPT ![i] = [c EXCEPT !.outcome = "noPath"]]
             /\ UNCHANGED <<disk, sheet>>
        ELSE LET w == writeTimesheetFile(disk, sheet, res.sheet, writable) IN
             /\ disk' = w.disk
             /\ sheet' = w.sheet
             /\ ts' = [ts EXCEPT ![i] =
                  [c EXCEPT !.outcome = IF w.threw THEN "saveFailed" ELSE "saved",
                            !.wrote = IF w.threw THEN 0 ELSE 1]]

\* One candidate answers or fails inside generateTimesheetFromLogs
TsModelAnswers(i, outcome, workspace, writable) ==
    /\ ts[i].pc = "model"
    /\ LET g == FbStep(ts[i].gen, outcome) IN
       IF g.status = "running"
       THEN /\ ts' = [ts EXCEPT ![i].gen = g]
            /\ UNCHANGED <<disk, sheet>>
       ELSE SaveTimesheet(i, g, workspace, writable)
    /\ UNCHANGED <<now, call, fb, inv, secret, appended, env>>

TimesheetInit ==
    /\ now = 0
    /\ disk \in TsInitDisks
    /\ call = NoCall
    /\ fb = NoFb
    /\ inv = <<>>
    /\ secret \in BOOLEAN
    /\ appended = <<>>
    /\ sheet \in {NoSheet, OldSheet}
    /\ ts = [i \in Invs |-> TsIdle]
    /\ env = NoEnv

TimesheetNext ==
    \/ \E i \in Invs, workspace \in BOOLEAN : StartGenerate(i, workspace)
    \/ \E i \in Invs, entered \in BOOLEAN : TsKeyReturns(i, entered)
    \/ \E i \in Invs, outcome \in TsOutcomes, workspace \in BOOLEAN, writable \in BOOLEAN :
          TsModelAnswers(i, outcome, workspace, writable)

SpecTimesheet == TimesheetInit /\ [][TimesheetNext]_vars

----------------------------------------------------------------------------
(* Claims about Generate Timesheet, under SpecTimesheet *)

\* The shape {date, tasks: [{category, entries: [{task, start, end}]}]}
MatchesTimesheet(v) == v.kind = "object" /\ {"date", "tasks"} \subseteq v.keys

Parses(text) == JsonTextParses(StripFences(text))
Saved(i) == ts[i].outcome = "saved"

\* C12: when the model's text, fences stripped, is not JSON, or is JSON that
\* does not match the Timesheet shape (a JSON array, an object without
\* tasks), generateTimesheetFromLogs raises and the command writes no
\* timesheet file.
C12_ShapeChecked ==
    \A i \in Invs :
        /\ ts[i].pc = "done" /\ ts[i].status = "returned"
        /\ ~(Parses(ts[i].text) /\ MatchesTimesheet(ValueOf(StripFences(ts[i].text)[1])))
        => ts[i].outcome = "generationFailed" /\ ts[i].wrote = 0

C13_ErrorState ==
    \A i \in Invs :
        /\ ts[i].wrote = 1 => ts[i].status = "returned" /\ Parses(ts[i].text)
        /\ ts[i].pc = "done" /\ ts[i].status = "thrown" =>
             ts[i].outcome = "generationFailed" /\ ts[i].wrote = 0
        /\ ts[i].pc = "done" /\ ts[i].status = "returned" /\ ~Parses(ts[i].text) =>
             ts[i].outcome = "generationFailed" /\ ts[i].wrote = 0

C13_WriteStep ==
    /\ sheet' # sheet =>
         \E i \in Invs : /\ ts[i].pc = "model" /\ ts'[i].wrote = 1
                         /\ ts'[i].status = "returned" /\ Parses(ts'[i].text)
    /\ \A i \in Invs :
         ts[i].pc = "model" /\ ts'[i].outcome = "generationFailed" => sheet' = sheet

\* C13: the timesheet file is written only after a candidate has returned
\* text and that text has parsed; when all candidates fail or the parse
\* fails the invocation ends with an error, no timesheet file is created and
\* one already there keeps its content.
C13_WriteOnlyAfterParse == [](C13_ErrorState) /\ [][C13_WriteStep]_vars

C13_Witness ==
    \E i \in Invs :
        /\ ts[i].outcome = "generationFailed"
        /\ ts[i].status = "returned" /\ ts[i].text = <<"Here", WS, "{A}">>
        /\ sheet = OldSheet
        /\ \A k \in Invs : ts[k].wrote = 0

C14_Whole ==
    sheet.exists =>
        \/ sheet = OldSheet
        \/ \E i \in Invs : Saved(i) /\ sheet.raw = <<StringifySheet(ts[i].parsed)>>

C14_Replaces ==
    \A i \in Invs : ts[i].pc = "model" /\ ts'[i].outcome = "saved" =>
        /\ ts'[i].parsed = ValueOf(StripFences(ts'[i].text)[1])
        /\ sheet' = [exists |-> TRUE, raw |-> <<StringifySheet(ts'[i].parsed)>>]

\* C14: after a successful Generate Timesheet invocation the timesheet file
\* holds exactly the newly parsed timesheet, whatever it held before; over
\* any interleaving of two invocations the file holds one whole timesheet,
\* never a mix of two.
C14_WholeReplacement == [](C14_Whole) /\ [][C14_Replaces]_vars

C14_Witness ==
    /\ Saved(1) /\ Saved(2)
    /\ ts[1].parsed = TimesheetB /\ ts[2].parsed = TimesheetA
    /\ sheet.raw = <<StringifySheet(TimesheetB)>>

\* The day log cannot feed a timesheet: missing, unreadable, or no records
NoRecords(d) ==
    \/ ~d.exists
    \/ readLogFile(d).threw
    \/ IsArray(readLogFile(d)) /\ Len(readLogFile(d).val) = 0

EarlyOutcomes == {"noWorkspace", "noLogFile", "readFailed", "empty"}

C25_States ==
    \A i \in Invs :
        /\ ts[i].pc = "done" <=> ts[i].outcome # "none"
        /\ ts[i].outcome \in EarlyOutcomes =>
             ts[i].status = "none" /\ ts[i].gen = NoFb /\ ts[i].wrote = 0
        /\ ts[i].pc = "model" => ts[i].gen # NoFb /\ ts[i].entries # <<>>
        /\ ts[i].status # "none" => ts[i].pc = "done" /\ ts[i].entries # <<>>
        /\ NoRecords(disk) =>
             /\ ts[i].pc \in {"idle", "done"}
             /\ ts[i].pc = "done" => ts[i].outcome \in EarlyOutcomes

C25_Steps ==
    \A i \in Invs :
        /\ ts[i].pc = "idle" => ts'[i].pc \in {"idle", "key", "done"}
        /\ ts[i].pc = "key" => ts'[i].pc \in {"key", "model", "done"}
        /\ ts[i].pc = "model" => ts'[i].pc \in {"model", "done"}
        /\ ts[i].pc = "done" => ts'[i] = ts[i]
        /\ ts[i].pc = "idle" /\ ts'[i].pc = "key" => ~NoRecords(disk)
        /\ ts[i].pc = "idle" /\ ts'[i].pc = "done" =>
             /\ ts'[i].outcome \in EarlyOutcomes
             /\ secret' = secret /\ sheet' = sheet

----------------------------------------------------------------------------
(* generateTimesheetFromLogs on one response, bare and fenced *)

FenceOpens == {<<FENCE>>, <<FENCE, "json">>, <<FENCE, "JSON">>}
WellFormed == {"{A}", "{B}"}

Pads(n) == [k \in 1..n |-> WS]

\* The document between an opening and a closing fence
Fenced(doc, open, a, b, lead, trail) ==
    Pads(lead) \o open \o Pads(a) \o <<doc>> \o Pads(b) \o <<FENCE>> \o Pads(trail)

\* generateTimesheetFromLogs when the first candidate answers with raw
Aggregate(raw) ==
    generateTimesheetFromLogs(FbStep(FbNew(FALLBACK_MODELS), Success(raw)))

FenceParse(doc, open, a, b, lead, trail) ==
    /\ call' = [op |-> "parse", doc |-> doc,
                text |-> Fenced(doc, open, a, b, lead, trail),
                plain |-> Aggregate(<<doc>>),
                fenced |-> Aggregate(Fenced(doc, open, a, b, lead, trail))]
    /\ UNCHANGED <<now, disk, fb, inv, secret, appended, sheet, ts, env>>

FenceInit ==
    /\ now = 0
    /\ disk = NoDir
    /\ call = NoCall
    /\ fb = NoFb
    /\ inv = <<>>
    /\ secret = FALSE
    /\ appended = <<>>
    /\ sheet = NoSheet
    /\ ts = <<>>
    /\ env = NoEnv

FenceNext ==
    \E doc \in WellFormed, open \in FenceOpens, a \in 0..MaxPad, b \in 0..MaxPad,
       lead \in 0..1, trail \in 0..1 :
        FenceParse(doc, open, a, b, lead, trail)

SpecFence == FenceInit /\ [][FenceNext]_vars

\* C26: for every well-formed Timesheet JSON text J, a response of J alone
\* and a response of J between fence markers (a fence or a fence with json
\* before, a fence after) parse to the same Timesheet; for the spec's example
\* the result has one category with one entry carrying exactly the fields
\* task, start, end.
C26_FenceTransparent ==
    call.op = "parse" =>
        /\ ~call.plain.threw /\ ~call.fenced.threw
        /\ call.fenced = call.plain
        /\ call.plain.sheet = ValueOf(call.doc)
        /\ MatchesTimesheet(call.fenced.sheet)
        /\ call.doc = "{A}" =>
             LET tasks == call.fenced.sheet.tasks IN
             /\ Len(tasks) = 1 /\ tasks[1].category = "Debugging"
             /\ Len(tasks[1].entries) = 1
             /\ DOMAIN tasks[1].entries[1] = {"task", "start", "end"}
             /\ tasks[1].entries[1] =
                  [task |-> "Fix null check", start |-> "09:00", end |-> "09:30"]

C26_Witness ==
    /\ call.op = "parse" /\ call.doc = "{A}"
    /\ call.text = <<FENCE, "json", WS, "{A}", WS, FENCE>>
    /\ call.fenced = TsOk(TimesheetA)

----------------------------------------------------------------------------
(* resolvePrompt.  The command holds the TextEditor it found when it       *)
(* started; editor.selection is read off that object each time, and the    *)
(* clipboard is read by an asynchronous call, so the user can change both  *)
(* while resolvePrompt waits.  call.origin records where the returned text *)
(* was read from.                                                          *)

PromptCaptureModes == {"clipboard", "activeInputCapture", "manual"}
LogSource == {"manual", "clipboard", "activeInputCapture"}

\* What the selection or the clipboard can hold
Raws == {<<>>, <<WS>>, <<"fix bug">>, <<WS, "fix bug", WS>>, <<"fix bugs">>}

\* A text of at most one word, as the string the record stores
Str(s) == IF s = <<>> THEN "" ELSE s[1]

\* editor && !editor.selection.isEmpty && getText(selection).trim().length > 0
hasSelectionText(editor, e) ==
    editor /\ e.selection # <<>> /\ Trim(e.selection) # <<>>

ResolveFrame(mode, editor, pc) ==
    [op |-> "resolvePrompt", mode |-> mode, editor |-> editor, pc |-> pc,
     retries |-> 3, text |-> UNDEFINED, source |-> "", origin |-> "none"]

\* resolvePrompt(mode, editor) up to its first await on the environment
ResolveStart(i, mode, editor) ==
    /\ inv[i].pc = "input" /\ inv[i].cmd = "captureAIPromptAndLog"
    /\ call.op # "resolvePrompt"
    /\ call' =
         IF mode = "manual"
         THEN ResolveFrame(mode, editor, "input")
         ELSE IF mode = "activeInputCapture" /\ hasSelectionText(editor, env)
         THEN [ResolveFrame(mode, editor, "returned") EXCEPT
                 !.text = Str(Trim(env.selection)),
                 !.source = "activeInputCapture", !.origin = "selection"]
         ELSE ResolveFrame(mode, editor, "readText")
    /\ UNCHANGED <<now, disk, fb, inv, secret, appended, sheet, ts, env>>

ClipboardRead_keepRetrying(i) ==
    /\ call.op = "resolvePrompt" /\ call.pc = "readText"
    /\ LET text == Trim(env.clipboard) IN
       call' =
         IF text = <<>>
         THEN [call EXCEPT !.pc = "sleep"]
         ELSE [call EXCEPT
                 !.pc = "returned", !.text = Str(text), !.origin = "clipboard",
                 !.source = IF call.mode = "clipboard" THEN "clipboard"
                            ELSE IF hasSelectionText(call.editor, env)
                                 THEN "activeInputCapture" ELSE "clipboard"]
    /\ UNCHANGED <<now, disk, fb, inv, secret, appended, sheet, ts, env>>

\* captureFromClipboard: readText answers; an empty text is retried after
\* 100 ms while retries are left, and resolvePrompt goes on with the rest
ClipboardRead(i) ==
    /\ call.op = "resolvePrompt" /\ call.pc = "readText"
    /\ LET text == Trim(env.clipboard) IN
       call' =
         IF text = <<>> /\ call.retries > 0
         THEN [call EXCEPT !.pc = "sleep", !.retries = @ - 1]
         ELSE IF text = <<>>
         THEN [call EXCEPT !.pc = "returned", !.text = UNDEFINED]
         ELSE [call EXCEPT
                 !.pc = "returned", !.text = Str(text), !.origin = "clipboard",
                 !.source = IF call.mode = "clipboard" THEN "clipboard"
                            ELSE IF hasSelectionText(call.editor, env)
                                 THEN "activeInputCapture" ELSE "clipboard"]
    /\ UNCHANGED <<now, disk, fb, inv, secret, appended, sheet, ts, env>>

\* setTimeout(resolve, 100) fires
RetryTimer(i) ==
    /\ call.op = "resolvePrompt" /\ call.pc = "sleep"
    /\ call' = [call EXCEPT !.pc = "readText"]
    /\ UNCHANGED <<now, disk, fb, inv, secret, appended, sheet, ts, env>>

\* showInputBox returns in manual mode
InputReturns(i, text) ==
    /\ call.op = "resolvePrompt" /\ call.pc = "input"
    /\ call' = IF text = UNDEFINED \/ text = ""
               THEN [call EXCEPT !.pc = "returned", !.text = UNDEFINED]
               ELSE [call EXCEPT !.pc = "returned", !.text = text,
                                 !.source = "manual", !.origin = "typed"]
    /\ UNCHANGED <<now, disk, fb, inv, secret, appended, sheet, ts, env>>

Awaiting == call.op = "resolvePrompt" /\ call.pc \in {"readText", "sleep", "input"}

\* The user selects other text, or none, while resolvePrompt waits
SelectionChanges(s) ==
    /\ Awaiting
    /\ s # env.selection
    /\ env' = [env EXCEPT !.selection = s]
    /\ UNCHANGED <<now, disk, call, fb, inv, secret, appended, sheet, ts>>

\* Something else is copied while resolvePrompt waits
ClipboardChanges(s) ==
    /\ Awaiting
    /\ s # env.clipboard
    /\ env' = [env EXCEPT !.clipboard = s]
    /\ UNCHANGED <<now, disk, call, fb, inv, secret, appended, sheet, ts>>

\* const resolved = await resolvePrompt(mode, editor), and what follows it
PromptCaptured(i, codeSnippet) ==
    /\ call.op = "resolvePrompt" /\ call.pc = "returned"
    /\ PromptResolved(i, call.text, call.source,
                      IF call.editor THEN codeSnippet ELSE <<>>)

PromptInit ==
    /\ now = 0
    /\ disk \in {NoDir, LegacyFile}
    /\ call = NoCall
    /\ fb = NoFb
    /\ inv = [i \in Invs |-> Idle]
    /\ secret \in BOOLEAN
    /\ appended = [i \in Invs |-> 0]
    /\ sheet = NoSheet
    /\ ts = <<>>
    /\ env \in [selection : Raws, clipboard : Raws]

PromptNext ==
    \/ \E workspace \in BOOLEAN : StartCapture(1, 1, workspace)
    \/ \E mode \in PromptCaptureModes, editor \in BOOLEAN : ResolveStart(1, mode, editor)
    \/ ClipboardRead(1)
    \/ RetryTimer(1)
    \/ \E text \in Texts \cup {UNDEFINED, ""} : InputReturns(1, text)
    \/ \E s \in Raws : SelectionChanges(s)
    \/ \E s \in Raws : ClipboardChanges(s)
    \/ \E c \in CaptureSnippets : PromptCaptured(1, c)
    \/ \E entered \in BOOLEAN : KeyReturns(1, entered)
    \/ AppendWrite(1)

SpecPrompt == PromptInit /\ [][PromptNext]_vars

\* The record's text is the non-blank selection of the editor
IsSelection(e) ==
    hasSelectionText(call.editor, env) /\ e.aiPrompt = Str(Trim(env.selection))

\* C27: the source tag of every record a capture persists is one of manual,
\* clipboard, activeInputCapture, and it names where the prompt text came
\* from: manual for typed input, clipboard for clipboard text, the selection
\* tag only when the text is the editor's non-blank selection; a capture that
\* fell back to the clipboard is tagged clipboard.
C27_SourceNamesOrigin ==
    (IsCapture(1) /\ Logged(1)) =>
        LET e == Stored(disk)[Len(Stored(disk))] IN
        /\ e.source \in LogSource
        /\ e.source = "manual" <=> call.origin = "typed"
        /\ e.source = "clipboard" => call.origin = "clipboard"
        /\ call.origin = "selection" => e.source = "activeInputCapture"
        /\ e.source = "activeInputCapture" => IsSelection(e)
        /\ (call.origin = "clipboard" /\ ~IsSelection(e)) => e.source = "clipboard"

----------------------------------------------------------------------------
(* The record each command builds: both commands in one window, every      *)
(* editor context, and direct calls of hashSnippet                         *)

RecordSnippets == {<<>>, <<WS>>, <<"code">>}
HashTexts == {<<>>, <<"code">>, <<WS, "code", WS>>}

\* hashSnippet(text) is called; call.before is the call before this one
HashCall(text) ==
    /\ call' = [op |-> "hashSnippet", text |-> text, ret |-> hashSnippet(text),
                before |-> IF call.op = "hashSnippet"
                           THEN <<call.text, call.ret>> ELSE <<>>]
    /\ UNCHANGED <<now, disk, fb, inv, secret, appended, sheet, ts, env>>

RecordInit ==
    /\ now = 0
    /\ disk \in {NoDir, LegacyFile}
    /\ call = NoCall
    /\ fb = NoFb
    /\ inv = [i \in Invs |-> Idle]
    /\ secret \in BOOLEAN
    /\ appended = [i \in Invs |-> 0]
    /\ sheet = NoSheet
    /\ ts = <<>>
    /\ env = NoEnv

RecordNext ==
    \/ \E i \in Invs : StartLogActivity(i, 1)
    \/ \E i \in Invs, workspace \in BOOLEAN : StartCapture(i, 1, workspace)
    \/ \E i \in Invs, d \in Texts \cup {UNDEFINED, ""}, c \in RecordSnippets :
          DescriptionEntered(i, d, c)
    \/ \E i \in Invs, t \in Texts \cup {UNDEFINED}, s \in {"clipboard"},
          c \in RecordSnippets :
          PromptResolved(i, t, s, c)
    \/ \E i \in Invs, entered \in BOOLEAN : KeyReturns(i, entered)
    \/ \E i \in Invs, outcome \in CmdOutcomes : CmdModelAnswers(i, outcome)
    \/ \E i \in Invs, workspace \in BOOLEAN : SummaryReturns(i, workspace)
    \/ \E i \in Invs : AppendWrite(i)
    \/ \E text \in HashTexts : HashCall(text)

SpecRecord == RecordInit /\ [][RecordNext]_vars

\* The last record of the day log
LastOf(d) == Stored(d)[Len(Stored(d))]

\* The step in which invocation i persists its record
Written(i) == ~Logged(i) /\ Logged(i)'

\* C28: a Capture AI Prompt and Log invocation that persists a record for a
\* non-blank code context has asked the model for a summary, and when a
\* candidate succeeded the persisted summary is not the placeholder.
C28_CaptureSummarized ==
    \A i \in Invs :
        (IsCapture(i) /\ Logged(i) /\ inv[i].hash = SHA256(<<"code">>)) =>
            /\ inv[i].models \in {"returned", "thrown"}
            /\ inv[i].models = "returned" => inv[i].summary # UNAVAILABLE

C29_Records ==
    \A k \in 1..Len(Stored(disk)) :
        "aiPrompt" \in DOMAIN Stored(disk)[k] =>
            Stored(disk)[k].description = Stored(disk)[k].aiPrompt

C29_Write ==
    \A i \in Invs :
        Written(i) =>
            /\ inv[i].text \in Texts
            /\ LastOf(disk').description = inv[i].text
            /\ LastOf(disk').aiPrompt = inv[i].text

\* C29: in every record that Log Activity or Capture AI Prompt persists, the
\* description and the aiPrompt hold the same text, and it is the text the
\* user typed or the prompt that was captured.
C29_SameText == [](C29_Records) /\ [][C29_Write]_vars

C29_Witness ==
    /\ inv[1].cmd = "logActivity" /\ Logged(1) /\ inv[1].text = "fix bug"
    /\ IsCapture(2) /\ Logged(2) /\ inv[2].text = "fix bugs"
    /\ Len(Stored(disk)) = 2
    /\ Stored(disk)[1].description = "fix bug" /\ Stored(disk)[1].aiPrompt = "fix bug"
    /\ Stored(disk)[2].description = "fix bugs" /\ Stored(disk)[2].aiPrompt = "fix bugs"

\* The text whose digest is h
ContextOf(h) == CHOOSE s \in RecordSnippets : SHA256(s) = h

C30_States ==
    /\ call.op = "hashSnippet" =>
         /\ call.ret = SHA256(call.text)
         /\ IF call.before = <<>> THEN TRUE
            ELSE call.before[1] = call.text => call.before[2] = call.ret
    /\ \A i \in Invs :
         inv[i].pc = "key" => inv[i].hash = SHA256(inv[i].snippet)

C30_Step ==
    \A i \in Invs :
        /\ inv[i].hash # "" => inv'[i].hash \in {inv[i].hash, ""}
        /\ Written(i) =>
             LET e == LastOf(disk') IN
             /\ inv[i].hash \in {SHA256(s) : s \in RecordSnippets}
             /\ e.codeContextSnippetHash = inv[i].hash
             /\ DOMAIN e = {KeyOrder[k] : k \in 1..Len(KeyOrder)}
             /\ ContextOf(inv[i].hash) # <<>> => e.summary # ContextOf(inv[i].hash)

----------------------------------------------------------------------------
(* Further claims about the commands, under Spec *)

\* The invocations that have written the day log
Writers == {i \in Invs : appended[i] > 0}

C31_AllKept ==
    (Writers # {} /\ \A i, j \in Writers : inv[i].host = inv[j].host) =>
        \E a \in Writers :
            /\ IsPrefix(inv[a].entries, Stored(disk))
            /\ Len(Stored(disk)) = Len(inv[a].entries) + Cardinality(Writers)
            /\ \A i \in Writers :
                 \E k \in (Len(inv[a].entries) + 1)..Len(Stored(disk)) :
                     Stored(disk)[k] = EntryOf(inv[i])

C31_NoStepBetween ==
    \A k, i \in Invs :
        (i # k /\ inv[k].pc = "appending" /\ inv[i].host = inv[k].host) =>
            inv'[i] = inv[i]

\* C31: inside one extension host appendLogEntry runs from its read to its
\* write with no step of another invocation of that host in between, so
\* when all the invocations that appended ran in one host, the day log holds
\* what the first of them read and then one record for each of them.
C31_SingleHostKeepsAll == [](C31_AllKept) /\ [][C31_NoStepBetween]_vars

C31_Witness ==
    /\ Logged(1) /\ Logged(2)
    /\ inv[1].host = 1 /\ inv[2].host = 1
    /\ inv[1].timestamp = inv[2].timestamp
    /\ inv[1].text # inv[2].text
    /\ Stored(disk) = inv[2].entries \o <<EntryOf(inv[2]), EntryOf(inv[1])>>

----------------------------------------------------------------------------
(* isDuplicateEntry on day logs whose last record is stamped in the future, *)
(* is stamped with no date, or is stamped at 0                             *)

\* Instants after every instant of the clock: 1 ms, 5 h 30 min and a day
SkewStamps == {MaxClock * 10000 + 1, 19800000, DAY_MS}

OneRecordFile(timestamp) ==
    [dir |-> TRUE, exists |-> TRUE,
     raw |-> <<Stringify(<<LogEntry(timestamp, "fix bug", <<"s">>, "clipboard")>>)>>]

SkewDisks ==
    {OneRecordFile(toISOString(s)) : s \in SkewStamps \cup {0, 60000}}
        \cup {OneRecordFile(INVALID_DATE), LegacyFile}

SkewInit ==
    /\ now = 0
    /\ disk \in SkewDisks
    /\ call = NoCall
    /\ fb = NoFb
    /\ inv = <<>>
    /\ secret = FALSE
    /\ appended = <<>>
    /\ sheet = NoSheet
    /\ ts = <<>>
    /\ env = NoEnv

SkewNext ==
    \/ \E d \in TickSteps : Tick(d)
    \/ \E text \in Texts : StoreIsDuplicate(text)

SpecSkew == SkewInit /\ [][SkewNext]_vars

\* C33: when the last record's text equals the candidate, isDuplicateEntry
\* returns true if the record's timestamp is later than the current instant,
\* by however much; false if the timestamp is no instant; and false at an
\* age of exactly 120000 ms.
C33_OneSidedWindow ==
    (call.op = "isDuplicate" /\ PromptOf(LastOf(disk)) = call.text) =>
        LET stamp == LastOf(disk).timestamp IN
        IF stamp = INVALID_DATE THEN call.res = Ok(FALSE)
        ELSE /\ InstantOf(LastOf(disk)) > now => call.res = Ok(TRUE)
             /\ now - InstantOf(LastOf(disk)) = TWO_MINUTES_MS =>
                  call.res = Ok(FALSE)

C33_Witness ==
    /\ call.op = "isDuplicate" /\ call.text = "fix bug"
    /\ LastOf(disk).timestamp = toISOString(19800000)
    /\ now = TWO_MINUTES_MS
    /\ call.res = Ok(TRUE)

----------------------------------------------------------------------------
(* A further claim about the orchestrator, under SpecFallback *)

----------------------------------------------------------------------------
(* Further claims about the commands, under Spec *)

C35_State ==
    \A i \in Invs :
        inv[i].outcome = "noKey" =>
            /\ inv[i].pc = "done"
            /\ appended[i] = 0 /\ inv[i].appendCalls = 0
            /\ inv[i].models = "none"

C35_Step ==
    \A i \in Invs :
        /\ (inv[i].pc = "key" /\ ~secret /\ ~secret' /\ inv'[i] # inv[i]) =>
              inv'[i].outcome = "noKey"
        /\ (inv[i].outcome # "noKey" /\ inv'[i].outcome = "noKey") =>
              /\ inv[i].pc = "key" /\ inv[i].sum = NoFb
              /\ ~secret /\ ~secret'
              /\ disk' = disk /\ appended' = appended

\* C35: when no API key is stored and the user cancels the key prompt, Log
\* Activity and Capture AI Prompt end with the key-required error message,
\* leave the day log as it is, persist no record and call no model; Capture
\* does so although it calls no model when it has a key.
C35_NoKeyNoRecord == [](C35_State) /\ [][C35_Step]_vars

C35_Witness ==
    /\ inv[1].cmd = "logActivity" /\ inv[1].outcome = "noKey"
    /\ IsCapture(2) /\ inv[2].outcome = "noKey"
    /\ ~secret /\ disk = NoDir

C38_State ==
    \A i \in Invs :
        /\ inv[i].cmd = "logActivity" =>
             inv[i].dup = "unchecked" /\ inv[i].outcome # "duplicate"
        /\ inv[i].outcome = "duplicate" => IsCapture(i)

C38_Step ==
    \A i \in Invs :
        (/\ inv[i].cmd = "logActivity" /\ inv[i].pc = "input"
         /\ inv'[i].pc # "input" /\ inv'[i].outcome # "cancelled") =>
            inv'[i].pc = "key" /\ inv'[i].text \in Texts

\* C38: Log Activity never consults the duplicate guard: whatever the day
\* log holds, an entered description goes on to be logged, so two Log
\* Activity invocations with the same description less than 2 minutes apart
\* both persist; only Capture AI Prompt ends as a suppressed duplicate.
C38_ManualNeverSuppressed == [](C38_State) /\ [][C38_Step]_vars

C38_Witness ==
    /\ inv[1].cmd = "logActivity" /\ Logged(1)
    /\ inv[2].cmd = "logActivity" /\ Logged(2)
    /\ inv[1].text = inv[2].text
    /\ inv[1].timestamp = <<0, 0>> /\ inv[2].timestamp = <<0, 60000>>
    /\ Len(Stored(disk)) = 2
    /\ Stored(disk) = <<EntryOf(inv[1]), EntryOf(inv[2])>>
    /\ Stored(disk)[1].aiPrompt = Stored(disk)[2].aiPrompt

----------------------------------------------------------------------------
(* One invocation of any of the three commands, from the command palette   *)
(* to its return, with resolvePrompt's waits and the timesheet's steps     *)

\* What the selection and the clipboard hold here: nothing or a prompt
OneRaws == {<<>>, <<"fix bug">>}

\* No command has been invoked yet
Quiet == inv[1].pc = "idle" /\ ts[1].pc = "idle"

OneInit ==
    /\ now = 0
    /\ disk \in {NoDir, MalformedFile, LegacyFile}
    /\ call = NoCall
    /\ fb = NoFb
    /\ inv = [i \in Invs |-> Idle]
    /\ secret \in BOOLEAN
    /\ appended = [i \in Invs |-> 0]
    /\ sheet \in {NoSheet, OldSheet}
    /\ ts = [i \in Invs |-> TsIdle]
    /\ env \in [selection : OneRaws, clipboard : OneRaws]

\* A step the command itself takes when something it awaits returns
Progress ==
    \/ \E d \in Texts \cup {UNDEFINED, ""}, c \in CmdSnippets : DescriptionEntered(1, d, c)
    \/ \E mode \in PromptCaptureModes, editor \in BOOLEAN : ResolveStart(1, mode, editor)
    \/ ClipboardRead(1)
    \/ RetryTimer(1)
    \/ \E text \in Texts \cup {UNDEFINED, ""} : InputReturns(1, text)
    \/ \E c \in CaptureSnippets : PromptCaptured(1, c)
    \/ \E entered \in BOOLEAN : KeyReturns(1, entered)
    \/ \E outcome \in CmdOutcomes : CmdModelAnswers(1, outcome)
    \/ \E workspace \in BOOLEAN : SummaryReturns(1, workspace)
    \/ AppendWrite(1)
    \/ \E entered \in BOOLEAN : TsKeyReturns(1, entered)
    \/ \E outcome \in TsOutcomes, workspace \in BOOLEAN, writable \in BOOLEAN :
          TsModelAnswers(1, outcome, workspace, writable)

OneNext ==
    \/ Quiet /\ StartLogActivity(1, 1)
    \/ Quiet /\ \E workspace \in BOOLEAN : StartCapture(1, 1, workspace)
    \/ Quiet /\ \E workspace \in BOOLEAN : StartGenerate(1, workspace)
    \/ \E s \in OneRaws : SelectionChanges(s)
    \/ \E s \in OneRaws : ClipboardChanges(s)
    \/ Progress

SpecOne == OneInit /\ [][OneNext]_vars

\* Every prompt, secret lookup, model call, timer and file operation that
\* the invocation awaits returns or fails
SpecLive == SpecOne /\ WF_vars(Progress)

C37_State ==
    /\ \A i \in Invs :
         /\ Logged(i) => appended[i] = 1 /\ inv[i].appendCalls = 1
         /\ inv[i].outcome = "writeFailed" => appended[i] = 0
    /\ \A i \in DOMAIN ts :
         /\ ts[i].outcome = "saved" => ts[i].wrote = 1 /\ sheet.exists
         /\ ts[i].outcome = "saveFailed" => ts[i].wrote = 0

C37_Step ==
    /\ \A i \in Invs :
         /\ (~Logged(i) /\ Logged(i)') =>
               /\ inv[i].pc = "appending"
               /\ ~writeLogFile(disk, WriteBack(i)).threw
               /\ disk' = writeLogFile(disk, WriteBack(i)).disk
         /\ inv[i].outcome = "writeFailed" => inv'[i].outcome = "writeFailed"
    /\ \A i \in DOMAIN ts :
         /\ (ts[i].outcome # "saved" /\ ts'[i].outcome = "saved") =>
               /\ sheet'.exists
               /\ sheet'.raw = <<StringifySheet(ts'[i].parsed)>>
         /\ ts[i].outcome = "saveFailed" =>
               ts'[i].outcome = "saveFailed" /\ sheet' = sheet

\* C37: in every command the success notification is shown only after the
\* file write (appendLogEntry, writeTimesheetFile) has returned without an
\* error; an invocation whose write fails shows the error message and never
\* the success notification.
C37_NotifyAfterWrite == [](C37_State) /\ [][C37_Step]_vars

C37_Witness ==
    /\ ts[1].outcome = "saveFailed" /\ ts[1].wrote = 0
    /\ ts[1].parsed = TimesheetA
    /\ sheet = OldSheet

TerminalOutcomes ==
    {"logged", "duplicate", "cancelled", "noKey", "noWorkspace", "writeFailed",
     "unhandled"}
TsTerminalOutcomes ==
    {"saved", "noWorkspace", "noLogFile", "readFailed", "empty", "noKey",
     "generationFailed", "noPath", "saveFailed"}

C32_Outcomes ==
    /\ inv[1].pc = "done" => inv[1].outcome \in TerminalOutcomes
    /\ ts[1].pc = "done" => ts[1].outcome \in TsTerminalOutcomes

\* C32: when everything an invocation awaits returns or fails, every Log
\* Activity, Capture AI Prompt and Generate Timesheet invocation that was
\* started ends, with one of the terminal outcomes (persisted, suppressed as
\* duplicate, cancelled, or an error); no outcome of the model calls or of
\* the clipboard reads makes it loop or wait forever.
C32_Terminates ==
    /\ [](C32_Outcomes)
    /\ (inv[1].pc # "idle") ~> (inv[1].pc = "done")
    /\ (ts[1].pc # "idle") ~> (ts[1].pc = "done")

C32_Witness ==
    /\ inv[1].cmd = "logActivity" /\ Logged(1) /\ inv[1].models = "thrown"

----------------------------------------------------------------------------
(* The commands around midnight.  Here disk and sheet hold one file per    *)
(* date label, the clock starts a minute before midnight, and each command *)
(* is cut at the awaits between taking its date and using its paths.       *)

\* The first ten characters of a timestamp: timestamp.slice(0, 10)
dateStr(timestamp) == IF timestamp[1] = 0 THEN "2026-02-28" ELSE "2026-03-01"

Labels == {"2026-02-28", "2026-03-01"}

DateIdle ==
    [pc |-> "idle", cmd |-> "", timestamp |-> <<0, 0>>, dateStr |-> "",
     text |-> "", path |-> "", checked |-> "", entries |-> <<>>,
     parsed |-> NoValue, out |-> "", at |-> 0, outcome |-> "none"]

DateCanStart(i) == inv[i].pc = "idle" /\ (i > 1 => inv[i - 1].pc # "idle")

\* A minute passes
DateTick ==
    /\ now < DAY_MS + 60000
    /\ now' = now + 60000
    /\ UNCHANGED <<disk, call, fb, inv, secret, appended, sheet, ts, env>>

\* logActivity to its awaits: the description is entered, the timestamp taken
LogActivityAt(i, description) ==
    /\ DateCanStart(i)
    /\ inv' = [inv EXCEPT ![i].cmd = "logActivity", ![i].pc = "awaiting",
                          ![i].text = description,
                          ![i].timestamp = getISTTimestamp(now)]
    /\ UNCHANGED <<now, disk, call, fb, secret, appended, sheet, ts, env>>

\* captureAIPromptAndLog to resolvePrompt: timestamp, dateStr, logFilePath
CaptureAt(i) ==
    /\ DateCanStart(i)
    /\ inv' = [inv EXCEPT ![i].cmd = "captureAIPromptAndLog", ![i].pc = "resolving",
                          ![i].timestamp = getISTTimestamp(now),
                          ![i].dateStr = dateStr(getISTTimestamp(now)),
                          ![i].path = dateStr(getISTTimestamp(now))]
    /\ UNCHANGED <<now, disk, call, fb, secret, appended, sheet, ts, env>>

\* resolvePrompt has returned: isDuplicateEntry(logFilePath, aiPrompt)
CaptureCheckedAt(i, text) ==
    /\ inv[i].pc = "resolving"
    /\ LET dup == isDuplicateEntry(disk[inv[i].path], text, now) IN
       inv' = [inv EXCEPT
                 ![i].text = text, ![i].checked = inv[i].path,
                 ![i].pc = IF dup.threw \/ dup.val THEN "done" ELSE "awaiting",
                 ![i].outcome = IF dup.threw THEN "unhandled"
                                ELSE IF dup.val THEN "duplicate" ELSE "none"]
    /\ UNCHANGED <<now, disk, call, fb, secret, appended, sheet, ts, env>>

\* The path appendLogEntry is given: logActivity resolves it from the
\* timestamp after its awaits, captureAIPromptAndLog resolved it at its start;
\* out and at record the file written and the instant of the write
LogFilePath(c) ==
    IF c.cmd = "logActivity" THEN dateStr(c.timestamp) ELSE c.path

AppendAt_today(i) ==
    /\ inv[i].pc = "awaiting"
    /\ LET path == dateStr(getISTTimestamp(now))
           entry == LogEntry(inv[i].timestamp, inv[i].text, UNAVAILABLE,
                             IF inv[i].cmd = "logActivity" THEN "manual"
                             ELSE "clipboard")
           res == appendLogEntry(disk[path], entry)
       IN  /\ disk' = [disk EXCEPT ![path] = res.disk]
           /\ inv' = [inv EXCEPT ![i].pc = "done", ![i].out = path, ![i].at = now,
                        ![i].outcome = IF res.threw THEN "writeFailed" ELSE "logged"]
    /\ UNCHANGED <<now, call, fb, secret, appended, sheet, ts, env>>

\* The awaits have returned: the entry is built and appended
AppendAt(i) ==
    /\ inv[i].pc = "awaiting"
    /\ LET path == LogFilePath(inv[i])
           entry == LogEntry(inv[i].timestamp, inv[i].text, UNAVAILABLE,
                             IF inv[i].cmd = "logActivity" THEN "manual"
                             ELSE "clipboard")
           res == appendLogEntry(disk[path], entry)
       IN  /\ disk' = [disk EXCEPT ![path] = res.disk]
           /\ inv' = [inv EXCEPT ![i].pc = "done", ![i].out = path, ![i].at = now,
                        ![i].outcome = IF res.threw THEN "writeFailed" ELSE "logged"]
    /\ UNCHANGED <<now, call, fb, secret, appended, sheet, ts, env>>

\* generateTimesheet to its awaits: dateStr, the day log of that date is read
GenerateAt(i) ==
    /\ DateCanStart(i)
    /\ LET d == dateStr(getISTTimestamp(now))
           r == readLogFile(disk[d])
           c == [inv[i] EXCEPT !.cmd = "generateTimesheet", !.dateStr = d,
                               !.path = d, !.pc = "done"]
       IN  inv' = [inv EXCEPT ![i] =
             IF ~disk[d].exists THEN [c EXCEPT !.outcome = "noLogFile"]
             ELSE IF r.threw THEN [c EXCEPT !.outcome = "readFailed"]
             ELSE IF IsArray(r) /\ Len(r.val) = 0 THEN [c EXCEPT !.outcome = "empty"]
             ELSE [c EXCEPT !.pc = "model", !.entries = r.val]]
    /\ UNCHANGED <<now, disk, call, fb, secret, appended, sheet, ts, env>>

\* The first candidate answers with a JSON document: parse and save
GenerateAnswersAt(i, doc) ==
    /\ inv[i].pc = "model"
    /\ LET d == inv[i].dateStr
           res == generateTimesheetFromLogs(
                      FbStep(FbNew(FALLBACK_MODELS), Success(<<doc>>)))
           w == writeTimesheetFile(disk[d], sheet[d], res.sheet, TRUE)
       IN  IF res.threw
           THEN /\ inv' = [inv EXCEPT ![i].pc = "done",
                                      ![i].outcome = "generationFailed"]
                /\ UNCHANGED <<disk, sheet>>
           ELSE /\ disk' = [disk EXCEPT ![d] = w.disk]
                /\ sheet' = [sheet EXCEPT ![d] = w.sheet]
                /\ inv' = [inv EXCEPT ![i].pc = "done", ![i].outcome = "saved",
                                      ![i].parsed = res.sheet, ![i].out = d]
    /\ UNCHANGED <<now, call, fb, secret, appended, ts, env>>

\* A record logged a minute and a half before midnight
EveningFile == OneRecordFile(toISOString(DAY_MS - 90000))

DateInit ==
    /\ now = DAY_MS - 60000
    /\ disk \in {[l \in Labels |-> NoFile],
                 [l \in Labels |-> IF l = "2026-02-28" THEN EveningFile ELSE NoDir]}
    /\ call = NoCall
    /\ fb = NoFb
    /\ inv = [i \in Invs |-> DateIdle]
    /\ secret = TRUE
    /\ appended = <<>>
    /\ sheet = [l \in Labels |-> NoSheet]
    /\ ts = <<>>
    /\ env = NoEnv

DateNext ==
    \/ DateTick
    \/ \E i \in Invs, d \in Texts : LogActivityAt(i, d)
    \/ \E i \in Invs : CaptureAt(i)
    \/ \E i \in Invs, t \in Texts : CaptureCheckedAt(i, t)
    \/ \E i \in Invs : AppendAt(i)
    \/ \E i \in Invs : GenerateAt(i)
    \/ \E i \in Invs, doc \in {"{A}", "{M}", "[]"} : GenerateAnswersAt(i, doc)

SpecDate == DateInit /\ [][DateNext]_vars

\* The records of the day log under a label, none when it is unreadable
RecordsOf(l) ==
    LET r == readLogFile(disk[l]) IN
    IF IsArray(r) THEN {r.val[k] : k \in 1..Len(r.val)} ELSE {}

\* C36: every record written by Log Activity or Capture AI Prompt lies in the
\* day log whose label is the first ten characters of the record's own
\* timestamp, also when the command started before midnight and appended
\* after it, and the duplicate check of Capture AI Prompt read that same file.
C36_DatePartition ==
    /\ \A l \in Labels : \A e \in RecordsOf(l) : dateStr(e.timestamp) = l
    /\ \A i \in Invs :
        /\ inv[i].outcome = "logged" =>
              /\ inv[i].out = dateStr(inv[i].timestamp)
              /\ \E e \in RecordsOf(inv[i].out) :
                    e.timestamp = inv[i].timestamp /\ e.description = inv[i].text
        /\ inv[i].checked # "" => inv[i].checked = dateStr(inv[i].timestamp)
        /\ inv[i].outcome = "logged" /\ inv[i].cmd = "captureAIPromptAndLog" =>
              inv[i].checked = inv[i].out

\* Both commands stamped before midnight and appended after it: their records
\* are in the log of the earlier day and the later day has no log
C36_Witness ==
    /\ \E i \in Invs, j \in Invs :
        /\ inv[i].cmd = "logActivity" /\ inv[j].cmd = "captureAIPromptAndLog"
        /\ \A k \in {i, j} :
            /\ inv[k].outcome = "logged"
            /\ inv[k].timestamp[1] = 0
            /\ inv[k].at >= DAY_MS
            /\ inv[k].out = "2026-02-28"
    /\ ~disk["2026-03-01"].exists

\* C39: the timesheet saved under date D was produced from the records read
\* from the day log of D in the same invocation, both paths coming from one
\* date string, and the date field inside the saved timesheet is D.
C39_DateConsistent ==
    \A i \in Invs :
        inv[i].outcome = "saved" =>
            /\ inv[i].out = inv[i].path
            /\ inv[i].out = inv[i].dateStr
            /\ sheet[inv[i].out].exists
            /\ inv[i].parsed.date = inv[i].dateStr

\* The two paths alone: one date string names the log read and the file saved
C39_OnePath ==
    \A i \in Invs :
        inv[i].outcome = "saved" =>
            inv[i].out = inv[i].path /\ inv[i].out = inv[i].dateStr

====
